---- MODULE Spec2Model ----
(***************************************************************************)
(* startup-express: request validation (validate / validateAll) and the   *)
(* centralized error handler (errorHandler), modelled as one request       *)
(* travelling through the middleware pipeline of one process; the app      *)
(* that setupExpress and addErrorHandlers build and the requests it        *)
(* serves; the process-level listeners; handlers wrapped by catchAsync     *)
(* and createValidatedHandler; the pagination helpers.                     *)
(***************************************************************************)
EXTENDS Integers, Sequences, FiniteSets, Bags, TLC

(***************************************************************************)
(* JavaScript values.  t is the typeof tag, n the number (or 0/1 of a      *)
(* boolean), s the string (or the label of an opaque object), items the    *)
(* elements of an array.                                                   *)
(***************************************************************************)
Undef == [t |-> "undefined", n |-> 0, s |-> "", items |-> <<>>]
Num(k) == [t |-> "number", n |-> k, s |-> "", items |-> <<>>]
NaN == [t |-> "nan", n |-> 0, s |-> "", items |-> <<>>]
Str(x) == [t |-> "string", n |-> 0, s |-> x, items |-> <<>>]
Bool(b) == [t |-> "boolean", n |-> IF b THEN 1 ELSE 0, s |-> "", items |-> <<>>]
Arr(xs) == [t |-> "array", n |-> 0, s |-> "", items |-> xs]
Obj(label) == [t |-> "object", n |-> 0, s |-> label, items |-> <<>>]

\* JavaScript truthiness, as used by `if (details)`, `err.message || message`,
\* `config.isDevelopment && err.stack`.
Truthy(v) ==
    CASE v.t = "undefined" -> FALSE
      [] v.t = "null" -> FALSE
      [] v.t = "nan" -> FALSE
      [] v.t = "number" -> v.n /= 0
      [] v.t = "boolean" -> v.n = 1
      [] v.t = "string" -> v.s /= ""
      [] OTHER -> TRUE

\* Number(x) of the values that occur in request sections.
ToNumber(v) ==
    CASE v.t = "number" -> v
      [] v.t = "null" -> Num(0)
      [] v.t = "boolean" -> Num(v.n)
      [] v.t = "string" ->
            CASE v.s = "" -> Num(0)
              [] v.s = "0" -> Num(0)
              [] v.s = "2" -> Num(2)
              [] v.s = "5" -> Num(5)
              [] v.s = "101" -> Num(101)
              [] OTHER -> NaN
      [] OTHER -> NaN

\* Array.prototype.join('.') over a path of string segments.
RECURSIVE JoinPath(_)
JoinPath(path) ==
    IF Len(path) = 0 THEN ""
    ELSE IF Len(path) = 1 THEN path[1]
    ELSE path[1] \o "." \o JoinPath(Tail(path))

(***************************************************************************)
(* Failures (thrown values).  cls is the class the instanceof tests see;   *)
(* name, code, message and stack are the own properties errorHandler       *)
(* reads; statusCode, errorCode and details belong to an AppError, issues  *)
(* to a ZodError.                                                          *)
(***************************************************************************)
ErrorCode ==
    {"BAD_REQUEST", "UNAUTHORIZED", "FORBIDDEN", "NOT_FOUND", "CONFLICT",
     "VALIDATION_ERROR", "RATE_LIMIT_EXCEEDED", "INTERNAL_SERVER_ERROR",
     "SERVICE_UNAVAILABLE", "DATABASE_ERROR"}

NoError ==
    [cls |-> "none", name |-> "", code |-> Undef, message |-> "", stack |-> Undef,
     statusCode |-> 0, errorCode |-> "", details |-> Undef, issues |-> <<>>]

PlainError(name, code, message, stack) ==
    [cls |-> "Error", name |-> name, code |-> code, message |-> message, stack |-> stack,
     statusCode |-> 0, errorCode |-> "", details |-> Undef, issues |-> <<>>]

\* new AppError(message, statusCode, errorCode, details), with the own
\* properties name and code an application may have put on it afterwards.
AppError(message, statusCode, errorCode, details, name, code, stack) ==
    [cls |-> "AppError", name |-> name, code |-> code, message |-> message, stack |-> stack,
     statusCode |-> statusCode, errorCode |-> errorCode, details |-> details, issues |-> <<>>]

ZodError(issues, name, code, stack) ==
    [cls |-> "ZodError", name |-> name, code |-> code, message |-> "zod issues", stack |-> stack,
     statusCode |-> 0, errorCode |-> "", details |-> Undef, issues |-> issues]

(***************************************************************************)
(* Request sections and schemas.                                           *)
(***************************************************************************)
Sources == {"body", "query", "params", "headers"}

\* A section is either not an object at all (isObj = FALSE: e.g. an absent
\* body) or an object with the keys page, limit and one key no schema knows.
NoObject == [isObj |-> FALSE, page |-> Undef, limit |-> Undef, other |-> Undef]
Section(p, l, o) == [isObj |-> TRUE, page |-> p, limit |-> l, other |-> o]

DefaultPage == 1
DefaultLimit == 10
DefaultMaxLimit == 100

Issue(path, message, code) == [path |-> path, message |-> message, code |-> code]

\* z.coerce.number().int().positive()[.max(m)].default(d) applied to one key.
\* Result: the parsed value and the issues raised under that key.
ParseCoercedInt(key, raw, dflt, hasMax, max) ==
    LET input == IF raw.t = "undefined" THEN Num(dflt) ELSE raw
        num == ToNumber(input)
    IN  IF num.t = "nan"
        THEN [value |-> Undef,
              issues |-> <<Issue(<<key>>, "Expected number, received nan", "invalid_type")>>]
        ELSE IF num.n <= 0
        THEN [value |-> Undef,
              issues |-> <<Issue(<<key>>, "Number must be greater than 0", "too_small")>>]
        ELSE IF hasMax /\ num.n > max
        THEN [value |-> Undef,
              issues |-> <<Issue(<<key>>, "Number must be less than or equal to 100", "too_big")>>]
        ELSE [value |-> num, issues |-> <<>>]

\* commonSchemas.pagination / createPaginationSchema(maxLimit): a z.object of
\* two coerced, defaulted integers; unknown keys are stripped.
ParsePagination(data, maxLimit) ==
    IF ~data.isObj
    THEN [kind |-> "zod", value |-> NoObject, thrown |-> NoError,
          issues |-> <<Issue(<<>>, "Required", "invalid_type")>>]
    ELSE LET p == ParseCoercedInt("page", data.page, DefaultPage, FALSE, 0)
             l == ParseCoercedInt("limit", data.limit, DefaultLimit, TRUE, maxLimit)
             all == p.issues \o l.issues
         IN  IF Len(all) > 0
             THEN [kind |-> "zod", value |-> NoObject, thrown |-> NoError, issues |-> all]
             ELSE [kind |-> "ok", value |-> Section(p.value, l.value, Undef),
                   thrown |-> NoError, issues |-> <<>>]

PaginationSchema == [kind |-> "pagination", maxLimit |-> DefaultMaxLimit, thrown |-> NoError]
\* A schema whose parse throws something that is not a ZodError (a throwing
\* transform or refinement, or a missing schema object).
FaultySchema(e) == [kind |-> "faulty", maxLimit |-> 0, thrown |-> e]

\* schema.parse(data): "ok" with the normalized value, "zod" (a ZodError with
\* its issues) or "throw" (any other exception, named by thrown).
SchemaParse(schema, data) ==
    IF schema.kind = "pagination"
    THEN ParsePagination(data, schema.maxLimit)
    ELSE [kind |-> "throw", value |-> NoObject, thrown |-> schema.thrown, issues |-> <<>>]

(***************************************************************************)
(* Middleware outcomes.  res is the list of responses written (status and  *)
(* JSON body), nextCalls the list of calls of next: hasArg = FALSE is      *)
(* next(), hasArg = TRUE is next(err).                                     *)
(***************************************************************************)
NextPlain == [hasArg |-> FALSE, err |-> NoError]
NextWith(e) == [hasArg |-> TRUE, err |-> e]
Response(status, body) == [status |-> status, body |-> body]

BAD_REQUEST == 400

\* validate: one entry per ZodError issue (validators/index.ts 41-45).
FormatIssue(issue) ==
    [field |-> JoinPath(issue.path), message |-> issue.message, code |-> issue.code]

\* validateAll: one entry per ZodError issue, tagged with its source (78-82).
FormatSourceIssue(source, issue) ==
    [source |-> source, field |-> JoinPath(issue.path), message |-> issue.message]

ValidationFailedBody(errors) ==
    [success |-> Bool(FALSE), message |-> Str("Validation failed"), errors |-> Arr(errors)]

\* validate without the `return` after the 400 response: it falls through to
\* next(error).
ValidateHandlerNoReturn(schema, source, req) ==
    LET parsed == SchemaParse(schema, req[source])
    IN  CASE parsed.kind = "ok" ->
                [req |-> [req EXCEPT ![source] = parsed.value],
                 res |-> <<>>,
                 nextCalls |-> <<NextPlain>>]
          [] parsed.kind = "zod" ->
                [req |-> req,
                 res |-> <<Response(BAD_REQUEST,
                                    ValidationFailedBody(
                                        [i \in 1..Len(parsed.issues) |->
                                            FormatIssue(parsed.issues[i])]))>>,
                 nextCalls |-> <<NextWith(ZodError(parsed.issues, "ZodError", Undef, Undef))>>]
          [] OTHER ->
                [req |-> req, res |-> <<>>, nextCalls |-> <<NextWith(parsed.thrown)>>]

\* validate with a catch block that drops what is not a ZodError and goes on.
ValidateHandlerSwallows(schema, source, req) ==
    LET parsed == SchemaParse(schema, req[source])
    IN  CASE parsed.kind = "ok" ->
                [req |-> [req EXCEPT ![source] = parsed.value],
                 res |-> <<>>,
                 nextCalls |-> <<NextPlain>>]
          [] parsed.kind = "zod" ->
                [req |-> req,
                 res |-> <<Response(BAD_REQUEST,
                                    ValidationFailedBody(
                                        [i \in 1..Len(parsed.issues) |->
                                            FormatIssue(parsed.issues[i])]))>>,
                 nextCalls |-> <<>>]
          [] OTHER ->
                [req |-> req, res |-> <<>>, nextCalls |-> <<NextPlain>>]

\* The middleware returned by validate(schema, source), run on req.
ValidateHandler(schema, source, req) ==
    LET parsed == SchemaParse(schema, req[source])
    IN  CASE parsed.kind = "ok" ->
                [req |-> [req EXCEPT ![source] = parsed.value],
                 res |-> <<>>,
                 nextCalls |-> <<NextPlain>>]
          [] parsed.kind = "zod" ->
                [req |-> req,
                 res |-> <<Response(BAD_REQUEST,
                                    ValidationFailedBody(
                                        [i \in 1..Len(parsed.issues) |->
                                            FormatIssue(parsed.issues[i])]))>>,
                 nextCalls |-> <<>>]
          [] OTHER ->
                [req |-> req, res |-> <<>>, nextCalls |-> <<NextWith(parsed.thrown)>>]

\* validateAll's loop body reporting a non-validation exception as a violation.
ValidateAllStepReportsThrow(acc, entry) ==
    LET source == entry.source
        parsed == SchemaParse(entry.schema, acc.req[source])
    IN  CASE parsed.kind = "ok" ->
                [req |-> [acc.req EXCEPT ![source] = parsed.value], errors |-> acc.errors]
          [] parsed.kind = "zod" ->
                [req |-> acc.req,
                 errors |-> acc.errors \o
                            [i \in 1..Len(parsed.issues) |->
                                FormatSourceIssue(source, parsed.issues[i])]]
          [] OTHER ->
                [req |-> acc.req,
                 errors |-> Append(acc.errors,
                                   [source |-> source, field |-> "",
                                    message |-> parsed.thrown.message])]

\* validateAll's loop body putting a source's violations in front of those
\* collected before.
ValidateAllStepPrepends(acc, entry) ==
    LET source == entry.source
        parsed == SchemaParse(entry.schema, acc.req[source])
    IN  CASE parsed.kind = "ok" ->
                [req |-> [acc.req EXCEPT ![source] = parsed.value], errors |-> acc.errors]
          [] parsed.kind = "zod" ->
                [req |-> acc.req,
                 errors |-> [i \in 1..Len(parsed.issues) |->
                                FormatSourceIssue(source, parsed.issues[i])]
                            \o acc.errors]
          [] OTHER -> acc

\* One iteration of validateAll's loop over Object.entries(schemas): acc is
\* the request and the errors collected so far.
ValidateAllStep(acc, entry) ==
    LET source == entry.source
        parsed == SchemaParse(entry.schema, acc.req[source])
    IN  CASE parsed.kind = "ok" ->
                [req |-> [acc.req EXCEPT ![source] = parsed.value], errors |-> acc.errors]
          [] parsed.kind = "zod" ->
                [req |-> acc.req,
                 errors |-> acc.errors \o
                            [i \in 1..Len(parsed.issues) |->
                                FormatSourceIssue(source, parsed.issues[i])]]
          [] OTHER -> acc

\* validateAll's loop leaving at the first source that produced violations.
RECURSIVE ValidateAllLoopStopsAtFailure(_, _)
ValidateAllLoopStopsAtFailure(acc, schemas) ==
    IF Len(schemas) = 0 \/ Len(acc.errors) > 0 THEN acc
    ELSE ValidateAllLoopStopsAtFailure(ValidateAllStep(acc, Head(schemas)), Tail(schemas))

RECURSIVE ValidateAllLoop(_, _)
ValidateAllLoop(acc, schemas) ==
    IF Len(schemas) = 0 THEN acc
    ELSE ValidateAllLoop(ValidateAllStep(acc, Head(schemas)), Tail(schemas))

\* The middleware returned by validateAll(schemas), run on req; schemas is
\* the mapping as the list of its entries in iteration order.
ValidateAllHandler(schemas, req) ==
    LET done == ValidateAllLoop([req |-> req, errors |-> <<>>], schemas)
    IN  IF Len(done.errors) > 0
        THEN [req |-> done.req,
              res |-> <<Response(BAD_REQUEST, ValidationFailedBody(done.errors))>>,
              nextCalls |-> <<>>]
        ELSE [req |-> done.req, res |-> <<>>, nextCalls |-> <<NextPlain>>]

(***************************************************************************)
(* Configuration and the centralized error handler.                        *)
(***************************************************************************)
\* config, computed once from process.env.NODE_ENV when the module loads.
Config(env) ==
    [env |-> IF Truthy(env) THEN env.s ELSE "development",
     isProduction |-> env = Str("production"),
     isDevelopment |-> env = Str("development"),
     isTest |-> env = Str("test")]

Classified(statusCode, message, errorCode, details) ==
    [statusCode |-> statusCode, message |-> message, errorCode |-> errorCode,
     details |-> details]

\* errorHandler's ZodError details: one entry per issue (errorHandler.ts 32-36).
FormatDetail(issue) ==
    [field |-> JoinPath(issue.path), message |-> issue.message, code |-> issue.code]

\* errorHandler testing the failure's code before its class and name.
ClassifyCodeFirst(err) ==
    IF err.code = Num(11000)
    THEN Classified(409, "Duplicate field value", "CONFLICT", Undef)
    ELSE IF err.code = Str("ECONNREFUSED")
    THEN Classified(503, "Service unavailable", "SERVICE_UNAVAILABLE", Undef)
    ELSE IF err.cls = "ZodError"
    THEN Classified(400, "Validation failed", "VALIDATION_ERROR",
                    Arr([i \in 1..Len(err.issues) |-> FormatDetail(err.issues[i])]))
    ELSE IF err.cls = "AppError"
    THEN Classified(err.statusCode, err.message, err.errorCode, err.details)
    ELSE IF err.name = "ValidationError"
    THEN Classified(400, "Validation Error", "VALIDATION_ERROR", Undef)
    ELSE IF err.name = "UnauthorizedError" \/ err.name = "JsonWebTokenError"
    THEN Classified(401, "Unauthorized", "UNAUTHORIZED", Undef)
    ELSE IF err.name = "CastError"
    THEN Classified(400, "Invalid ID format", "BAD_REQUEST", Undef)
    ELSE Classified(500,
                    IF err.message /= "" THEN err.message ELSE "Something went wrong",
                    "INTERNAL_SERVER_ERROR", Undef)

\* The if / else-if chain of errorHandler (errorHandler.ts 22-68).
Classify(err) ==
    IF err.cls = "ZodError"
    THEN Classified(400, "Validation failed", "VALIDATION_ERROR",
                    Arr([i \in 1..Len(err.issues) |-> FormatDetail(err.issues[i])]))
    ELSE IF err.cls = "AppError"
    THEN Classified(err.statusCode, err.message, err.errorCode, err.details)
    ELSE IF err.name = "ValidationError"
    THEN Classified(400, "Validation Error", "VALIDATION_ERROR", Undef)
    ELSE IF err.name = "UnauthorizedError" \/ err.name = "JsonWebTokenError"
    THEN Classified(401, "Unauthorized", "UNAUTHORIZED", Undef)
    ELSE IF err.name = "CastError"
    THEN Classified(400, "Invalid ID format", "BAD_REQUEST", Undef)
    ELSE IF err.code = Num(11000)
    THEN Classified(409, "Duplicate field value", "CONFLICT", Undef)
    ELSE IF err.code = Str("ECONNREFUSED")
    THEN Classified(503, "Service unavailable", "SERVICE_UNAVAILABLE", Undef)
    ELSE Classified(500,
                    IF err.message /= "" THEN err.message ELSE "Something went wrong",
                    "INTERNAL_SERVER_ERROR", Undef)

\* errorHandler answering with res.json alone, the status left at its default.
ErrorHandlerResponseNoStatus(err, req, cfg) ==
    LET c == Classify(err)
    IN  Response(200,
                 [success |-> Bool(FALSE),
                  message |-> Str(c.message),
                  errorCode |-> Str(c.errorCode),
                  requestId |-> req.requestId,
                  timestamp |-> Str("ISO-8601"),
                  errors |-> IF Truthy(c.details) THEN c.details ELSE Undef,
                  stack |-> IF cfg.isDevelopment /\ Truthy(err.stack)
                            THEN err.stack ELSE Undef])

\* errorHandler leaving the request's id out of the envelope.
ErrorHandlerResponseDropsRequestId(err, req, cfg) ==
    LET c == Classify(err)
    IN  Response(c.statusCode,
                 [success |-> Bool(FALSE),
                  message |-> Str(c.message),
                  errorCode |-> Str(c.errorCode),
                  requestId |-> Undef,
                  timestamp |-> Str("ISO-8601"),
                  errors |-> IF Truthy(c.details) THEN c.details ELSE Undef,
                  stack |-> IF cfg.isDevelopment /\ Truthy(err.stack)
                            THEN err.stack ELSE Undef])

\* The response errorHandler writes for err (errorHandler.ts 83-102).  A key
\* the code does not set is undefined, which res.json leaves out.
ErrorHandlerResponse(err, req, cfg) ==
    LET c == Classify(err)
    IN  Response(c.statusCode,
                 [success |-> Bool(FALSE),
                  message |-> Str(c.message),
                  errorCode |-> Str(c.errorCode),
                  requestId |-> req.requestId,
                  timestamp |-> Str("ISO-8601"),
                  errors |-> IF Truthy(c.details) THEN c.details ELSE Undef,
                  stack |-> IF cfg.isDevelopment /\ Truthy(err.stack)
                            THEN err.stack ELSE Undef])

\* What res.json serializes: a key is in the JSON body iff it is set to
\* something other than undefined.
HasField(body, key) == key \in DOMAIN body /\ body[key].t /= "undefined"

(***************************************************************************)
(* The application: configuration, the middleware stack and dispatch.      *)
(***************************************************************************)
\* One section of StartupExpressConfig: absent, or an object with its
\* enabled flag and (for rateLimit) its max.
NoSection == [present |-> FALSE, enabled |-> Undef, max |-> Undef]
ConfigSection(enabled, max) == [present |-> TRUE, enabled |-> enabled, max |-> max]
StartupExpressConfig(requestId, helmet, cors, compression, rateLimit, logging) ==
    [requestId |-> requestId, helmet |-> helmet, cors |-> cors,
     compression |-> compression, rateLimit |-> rateLimit, logging |-> logging]
DefaultConfig ==
    StartupExpressConfig(NoSection, NoSection, NoSection, NoSection, NoSection, NoSection)

\* config.x?.enabled and config.rateLimit?.max.
EnabledOf(section) == IF section.present THEN section.enabled ELSE Undef
MaxOf(section) == IF section.present THEN section.max ELSE Undef

\* A test that compares loosely: enabled != false, which 0 fails as well.
EnabledLoosely(section) ==
    EnabledOf(section) \notin {Bool(FALSE), Num(0), Str("")}

\* config.x?.enabled !== false
Enabled(section) == EnabledOf(section) /= Bool(FALSE)

\* Layers of the app's stack.
Middleware(name) == [kind |-> name, method |-> "", path |-> "", max |-> Undef]
Route(method, path, handler) == [kind |-> handler, method |-> method, path |-> path, max |-> Undef]
\* rateLimitMiddleware(options): the options spread over the wrapper's own, so
\* the max that reaches the limiter is the caller's, undefined included.
RateLimit(max) == [kind |-> "rateLimit", method |-> "", path |-> "", max |-> max]
RouteKinds == {"health", "ready", "user"}
IsRoute(layer) == layer.kind \in RouteKinds

\* setupExpress(app, config): what it appends to the app's stack, in order.
SetupExpress(app, config) ==
    app
    \o (IF Enabled(config.requestId) THEN <<Middleware("requestId")>> ELSE <<>>)
    \o <<Middleware("timing")>>
    \o (IF Enabled(config.helmet) THEN <<Middleware("helmet")>> ELSE <<>>)
    \o (IF Enabled(config.cors) THEN <<Middleware("cors")>> ELSE <<>>)
    \o (IF Enabled(config.compression) THEN <<Middleware("compression")>> ELSE <<>>)
    \o (IF Enabled(config.rateLimit) THEN <<RateLimit(MaxOf(config.rateLimit))>> ELSE <<>>)
    \o <<Middleware("json"), Middleware("urlencoded")>>
    \o <<Middleware("sanitize")>>
    \o (IF Enabled(config.logging) THEN <<Middleware("morgan")>> ELSE <<>>)
    \o <<Route("GET", "/health", "health"), Route("GET", "/ready", "ready")>>

\* Error handlers installed in the opposite order.
AddErrorHandlersSwapped(app) ==
    app \o <<Middleware("errorHandler"), Middleware("notFound")>>

\* addErrorHandlers(app)
AddErrorHandlers(app) ==
    app \o <<Middleware("notFound"), Middleware("errorHandler")>>

\* A request as the client sends it.
ClientRequest(method, originalUrl, requestIdHeader) ==
    [method |-> method, originalUrl |-> originalUrl, requestIdHeader |-> requestIdHeader]

\* The limit express-rate-limit applies when no max reaches it.
ExpressRateLimitDefault == 5
EffectiveLimit(max) == IF max.t = "number" THEN max.n ELSE ExpressRateLimitDefault
TOO_MANY_REQUESTS == 429
RateLimitMessage == "Too many requests from this IP, please try again later."

\* The default generator, nanoid(21): a fresh id at every call.
Generator(k) == Str("nanoid-" \o ToString(k))

\* notFoundHandler with AppError.notFound's default message.
NotFoundHandlerDefaultMessage(request) ==
    AppError("Resource not found", 404, "NOT_FOUND", Undef, "Error", Undef,
             Str("Error: at notFoundHandler"))

\* The failure notFoundHandler forwards.
NotFoundHandler(request) ==
    AppError("Route not found: " \o request.originalUrl, 404, "NOT_FOUND", Undef,
             "Error", Undef, Str("Error: at notFoundHandler"))

\* What a user's route handler throws when it fails.
RouteError == PlainError("Error", Undef, "boom", Str("Error: at handler (app.js:1:1)"))

\* The request in flight through the stack.
NoResponse == <<>>
Context(requestId, resHeader, hits, nextId, err, res, writer, trail) ==
    [requestId |-> requestId, resHeader |-> resHeader, hits |-> hits,
     nextId |-> nextId, err |-> err, res |-> res, writer |-> writer, trail |-> trail]

\* Express runs an error-handling middleware only on a forwarded failure,
\* any other layer only without one, a route only on its method and path.
Applies(layer, request, ctx) ==
    IF layer.kind = "errorHandler" THEN ctx.err /= NoError
    ELSE /\ ctx.err = NoError
         /\ IsRoute(layer) => (layer.method = request.method /\ layer.path = request.originalUrl)

Responds(ctx, writer, response) ==
    [ctx EXCEPT !.res = <<response>>, !.writer = writer]

\* One layer runs on the request.
RunLayer(layer, request, ctx, handlerThrows, cfg) ==
    CASE layer.kind = "requestId" ->
            IF Truthy(request.requestIdHeader)
            THEN [ctx EXCEPT !.requestId = request.requestIdHeader,
                             !.resHeader = request.requestIdHeader]
            ELSE [ctx EXCEPT !.requestId = Generator(ctx.nextId),
                             !.resHeader = Generator(ctx.nextId),
                             !.nextId = ctx.nextId + 1]
      [] layer.kind = "rateLimit" ->
            IF ctx.hits + 1 > EffectiveLimit(layer.max)
            THEN Responds([ctx EXCEPT !.hits = ctx.hits + 1], "rateLimit",
                          Response(TOO_MANY_REQUESTS, [text |-> Str(RateLimitMessage)]))
            ELSE [ctx EXCEPT !.hits = ctx.hits + 1]
      [] layer.kind = "health" ->
            Responds(ctx, "health",
                     Response(200, [success |-> Bool(TRUE),
                                    message |-> Str("Server is healthy"),
                                    timestamp |-> Str("ISO-8601"),
                                    uptime |-> Num(0),
                                    environment |-> Str(cfg.env),
                                    requestId |-> ctx.requestId]))
      [] layer.kind = "ready" ->
            Responds(ctx, "ready",
                     Response(200, [success |-> Bool(TRUE),
                                    message |-> Str("Server is ready")]))
      [] layer.kind = "user" ->
            IF handlerThrows THEN [ctx EXCEPT !.err = RouteError]
            ELSE Responds(ctx, "user", Response(200, [success |-> Bool(TRUE)]))
      [] layer.kind = "notFound" -> [ctx EXCEPT !.err = NotFoundHandler(request)]
      [] layer.kind = "errorHandler" ->
            Responds(ctx, "errorHandler",
                     ErrorHandlerResponse(ctx.err, [requestId |-> ctx.requestId], cfg))
      [] OTHER -> ctx

\* Express's own answer when the stack is exhausted: 404, or the failure's
\* status, as an HTML page.
FinalHandler(request, ctx) ==
    Responds(ctx, "finalhandler",
             Response(IF ctx.err = NoError THEN 404
                      ELSE IF ctx.err.cls = "AppError" THEN ctx.err.statusCode ELSE 500,
                      [html |-> Str("<pre>")]))

\* The request walks the stack from layer i until a layer has answered;
\* ctx is the request after the layers before i.
RECURSIVE Dispatch(_, _, _, _, _, _)
Dispatch(app, i, request, ctx, handlerThrows, cfg) ==
    IF ctx.res /= NoResponse THEN ctx
    ELSE IF i > Len(app) THEN FinalHandler(request, ctx)
    ELSE Dispatch(app, i + 1, request,
                  IF Applies(app[i], request, ctx)
                  THEN RunLayer(app[i], request, [ctx EXCEPT !.trail = Append(ctx.trail, i)],
                                handlerThrows, cfg)
                  ELSE ctx,
                  handlerThrows, cfg)

(***************************************************************************)
(* Pagination metadata.                                                    *)
(***************************************************************************)
\* Math.floor(total / limit)
MathFloorOfQuotient(total, limit) == total \div limit

\* Math.ceil(total / limit): the quotient, rounded up when the division
\* leaves a remainder.
MathCeilOfQuotient(total, limit) ==
    IF total % limit = 0 THEN total \div limit ELSE (total \div limit) + 1

PaginationMeta(page, limit, total, totalPages) ==
    [page |-> page, limit |-> limit, total |-> total, totalPages |-> totalPages,
     hasNext |-> page < totalPages, hasPrev |-> page > 1]

\* createPaginationMeta(page, limit, total)
CreatePaginationMeta(page, limit, total) ==
    PaginationMeta(page, limit, total, MathCeilOfQuotient(total, limit))

OK == 200
\* sendPaginated(res, data, pagination, req): the response it writes.
SendPaginated(data, pagination, requestId) ==
    Response(OK,
             [success |-> Bool(TRUE),
              data |-> data,
              meta |-> [timestamp |-> Str("ISO-8601"),
                        requestId |-> requestId,
                        pagination |->
                            PaginationMeta(pagination.page, pagination.limit,
                                           pagination.total,
                                           MathCeilOfQuotient(pagination.total,
                                                              pagination.limit))]])

(***************************************************************************)
(* Process-level failures.                                                 *)
(***************************************************************************)
\* The process as the listeners see it: what was logged, the exit code
\* (undefined while the process runs).
Process(log, exit) == [log |-> log, exit |-> exit]
LogEntry(level, message, detail) == [level |-> level, message |-> message, detail |-> detail]

\* The 'unhandledRejection' listener of setupGlobalErrorHandlers.
OnUnhandledRejection(reason, cfg, proc) ==
    Process(Append(proc.log, LogEntry("error", "Unhandled Rejection:", reason.message)),
            IF cfg.isDevelopment THEN Num(1) ELSE proc.exit)

\* The 'uncaughtException' listener of setupGlobalErrorHandlers.
OnUncaughtException(error, proc) ==
    Process(Append(proc.log, LogEntry("error", "Uncaught Exception:", error.message)),
            Num(1))

\* The event goes to the k installed listeners in turn; process.exit ends
\* the process at once, so the listeners after it do not run.
RECURSIVE Emit(_, _, _, _, _)
Emit(event, value, k, cfg, proc) ==
    IF k = 0 \/ proc.exit /= Undef THEN proc
    ELSE Emit(event, value, k - 1, cfg,
              IF event = "unhandledRejection"
              THEN OnUnhandledRejection(value, cfg, proc)
              ELSE OnUncaughtException(value, proc))

(***************************************************************************)
(* Asynchronous route handlers.                                            *)
(***************************************************************************)
\* One invocation of a wrapped handler: the promise of the handler, whether
\* a rejection reaction is attached to it, the calls of next and who made
\* them, whether its rejection went unhandled.
NextCall(by, arg) == [by |-> by, arg |-> arg]
Task(wrapper, promise, reason, attached, reacted, calls, unhandled) ==
    [wrapper |-> wrapper, promise |-> promise, reason |-> reason,
     attached |-> attached, reacted |-> reacted, calls |-> calls,
     unhandled |-> unhandled]
NoTask == Task("none", "none", NoError, FALSE, FALSE, <<>>, FALSE)

\* What the handler does when called: it may call next itself, then throws,
\* returns a plain value, or returns a promise.
Behaviour(result, error, callsNext) ==
    [result |-> result, error |-> error, callsNext |-> callsNext]
HandlerCalls(behaviour) ==
    IF behaviour.callsNext THEN <<NextCall("handler", NextPlain)>> ELSE <<>>

\* Express catches what a layer throws synchronously and calls next with it.
ExpressCatch(e) == NextCall("express", NextWith(e))

\* catchAsync(fn)(req, res, next): Promise.resolve(fn(req, res, next)).catch(next)
CatchAsync(behaviour) ==
    CASE behaviour.result = "throws" ->
            Task("catchAsync", "none", NoError, FALSE, FALSE,
                 HandlerCalls(behaviour) \o <<ExpressCatch(behaviour.error)>>, FALSE)
      [] behaviour.result = "returns" ->
            Task("catchAsync", "fulfilled", NoError, TRUE, FALSE,
                 HandlerCalls(behaviour), FALSE)
      [] OTHER ->
            Task("catchAsync", "pending", NoError, TRUE, FALSE,
                 HandlerCalls(behaviour), FALSE)

\* The handler of createValidatedHandler: try { await handler(req, res, next) }
\* catch (error) { next(error) }
CreateValidatedHandler(behaviour) ==
    CASE behaviour.result = "throws" ->
            Task("createValidatedHandler", "none", NoError, FALSE, FALSE,
                 HandlerCalls(behaviour) \o <<NextCall("wrapper", NextWith(behaviour.error))>>,
                 FALSE)
      [] behaviour.result = "returns" ->
            Task("createValidatedHandler", "fulfilled", NoError, TRUE, FALSE,
                 HandlerCalls(behaviour), FALSE)
      [] OTHER ->
            Task("createValidatedHandler", "pending", NoError, TRUE, FALSE,
                 HandlerCalls(behaviour), FALSE)

\* The handler's promise settles; a rejection nobody is attached to is an
\* unhandled rejection.
Settled(task, promise, reason) ==
    [task EXCEPT !.promise = promise, !.reason = reason,
                 !.unhandled = (promise = "rejected" /\ ~task.attached)]

\* A reaction that calls next without the failure.
OnSettledCallsNextPlain(task) ==
    [task EXCEPT !.reacted = TRUE,
                 !.calls = IF task.promise = "rejected"
                           THEN Append(task.calls, NextCall("wrapper", NextPlain))
                           ELSE task.calls]

\* The reaction job of the settled promise: .catch(next), or the catch block
\* after await; nothing on fulfilment.
OnSettled(task) ==
    [task EXCEPT !.reacted = TRUE,
                 !.calls = IF task.promise = "rejected"
                           THEN Append(task.calls, NextCall("wrapper", NextWith(task.reason)))
                           ELSE task.calls]

(***************************************************************************)
(* Inputs.                                                                 *)
(***************************************************************************)
MaxSources == 2

NodeEnvs == {Undef, Str("production"), Str("development"), Str("test")}

\* Section values a client can send: no object, {}, coercible strings with
\* an unknown key, one bad key, two bad keys.
SectionValues ==
    {NoObject,
     Section(Undef, Undef, Undef),
     Section(Str("2"), Str("5"), Str("x")),
     Section(Str("abc"), Undef, Undef),
     Section(Num(0), Str("101"), Str("x"))}
ParamsValues == {Section(Str("abc"), Num(5), Undef)}
HeadersValues == {Section(Undef, Undef, Str("x"))}
RequestIds == {Undef, Str("req-1")}

Request(body, query, params, headers, requestId) ==
    [body |-> body, query |-> query, params |-> params, headers |-> headers,
     requestId |-> requestId]

Stacks == {Undef, Str("Error: at handler (app.js:1:1)")}
Names == {"Error", "ValidationError", "UnauthorizedError", "JsonWebTokenError", "CastError"}
Codes == {Undef, Num(11000), Str("ECONNREFUSED"), Str("11000")}
Details ==
    {Undef, Num(0), Bool(FALSE), Str(""), Arr(<<>>), Obj("{userId:123}")}

PlainErrors ==
    {PlainError(n, c, m, st) : n \in Names, c \in Codes, m \in {"", "boom"}, st \in Stacks}
AppErrors ==
    {AppError(m, sc[1], sc[2], d, n, c, st) :
        m \in {"", "User not found"},
        sc \in {<<404, "NOT_FOUND">>, <<422, "DATABASE_ERROR">>},
        d \in Details, n \in {"Error", "ValidationError"},
        c \in {Undef, Str("ECONNREFUSED")}, st \in Stacks}
ZodErrors ==
    {ZodError(is, n, c, st) :
        is \in {<<Issue(<<>>, "Required", "invalid_type")>>,
                <<Issue(<<"page">>, "Expected number, received nan", "invalid_type"),
                  Issue(<<"limit">>, "Number must be greater than 0", "too_small")>>},
        n \in {"ZodError", "ValidationError"}, c \in {Undef, Num(11000)}, st \in Stacks}
Errors == PlainErrors \cup AppErrors \cup ZodErrors

\* What a schema's parse can throw besides a ZodError.
ThrownErrors ==
    {PlainError("TypeError", Undef, "boom", Str("TypeError: at parse (schema.js:1:1)")),
     AppError("Unsupported", 422, "VALIDATION_ERROR", Undef, "Error", Undef, Undef)}
Schemas == {PaginationSchema} \cup {FaultySchema(e) : e \in ThrownErrors}

Entry(source, schema) == [source |-> source, schema |-> schema]
Entries == {Entry(src, sch) : src \in Sources, sch \in Schemas}
\* A schema mapping: at most MaxSources entries, one per source, in the
\* mapping's iteration order.
RECURSIVE MappingsOfLen(_)
MappingsOfLen(n) ==
    IF n = 0 THEN {<<>>}
    ELSE {Append(m, e) : m \in MappingsOfLen(n - 1), e \in Entries}
Distinct(m) == \A i, j \in 1..Len(m) : i /= j => m[i].source /= m[j].source
Mappings == UNION {{m \in MappingsOfLen(n) : Distinct(m)} : n \in 0..MaxSources}

\* Values of an enabled flag: absent, true, false, and a falsy value that
\* is not false.
Flags == {Undef, Bool(TRUE), Bool(FALSE), Num(0)}
ConfigSections == {NoSection} \cup {ConfigSection(e, Undef) : e \in Flags}
Configs ==
    {StartupExpressConfig(a, b, c, d, e, f) :
        a \in ConfigSections, b \in ConfigSections, c \in ConfigSections,
        d \in ConfigSections, e \in ConfigSections, f \in ConfigSections}
\* Configurations of the apps that serve: the default one, and one without
\* request ids and with its own rate limit.
ServeConfigs ==
    {DefaultConfig,
     [DefaultConfig EXCEPT !.requestId = ConfigSection(Bool(FALSE), Undef),
                           !.rateLimit = ConfigSection(Undef, Num(2))]}
AppNodeEnvs == {Str("production"), Str("development")}
UserPaths == {"/users"}
MaxRequests == 7
\* Requests of a client: the fixed endpoints, a wrong method, the route the
\* application registers, a path nobody registers; without a request-id
\* header, with an empty one, with one a client sends with every request.
ClientRequests ==
    {ClientRequest("GET", "/health", Undef), ClientRequest("GET", "/health", Str("abc")),
     ClientRequest("GET", "/ready", Str("")),
     ClientRequest("POST", "/health", Undef),
     ClientRequest("GET", "/users", Undef), ClientRequest("GET", "/users", Str("abc")),
     ClientRequest("GET", "/missing", Undef), ClientRequest("GET", "/missing", Str("abc"))}
\* What the application's handler may do with a request it is given.
HandlerOutcomes(request) ==
    IF request.originalUrl \in UserPaths THEN BOOLEAN ELSE {FALSE}

MaxPage == 3
MaxPageLimit == 10
MaxTotal == 25
Pagination(page, limit, total) == [page |-> page, limit |-> limit, total |-> total]
PaginationInputs ==
    {Pagination(p, l, t) : p \in 1..MaxPage, l \in 1..MaxPageLimit, t \in 0..MaxTotal}

MaxSetups == 2
MaxLogEntries == 4
Rejections ==
    {RouteError,
     AppError("User not found", 404, "NOT_FOUND", Undef, "Error", Undef, Undef)}

MaxTasks == 2
Tasks == 1..MaxTasks
Behaviours ==
    {Behaviour(r, e, n) : r \in {"returns", "promise"}, e \in {NoError}, n \in BOOLEAN}
    \cup {Behaviour("throws", e, n) : e \in Rejections, n \in BOOLEAN}

(***************************************************************************)
(* Several requests in flight through the validator middlewares.  Each     *)
(* middleware runs synchronously from its call to its return, so the       *)
(* requests interleave between the runs.  next is Express's callback; what *)
(* it does when the middleware calls next() is an input: it returns, or it *)
(* throws.                                                                 *)
(***************************************************************************)
NextReturns == NoError

\* validate with a next() that throws: the call stands inside the try
\* (validators/index.ts 37), so the catch gets the exception of next.
ValidateCalling(schema, source, req, nextDoes) ==
    LET out == ValidateHandler(schema, source, req)
    IN  IF out.nextCalls /= <<NextPlain>> \/ nextDoes = NextReturns THEN out
        ELSE IF nextDoes.cls = "ZodError"
        THEN [req |-> out.req,
              res |-> <<Response(BAD_REQUEST,
                                 ValidationFailedBody(
                                     [i \in 1..Len(nextDoes.issues) |->
                                         FormatIssue(nextDoes.issues[i])]))>>,
              nextCalls |-> <<NextPlain>>]
        ELSE [req |-> out.req, res |-> <<>>,
              nextCalls |-> <<NextPlain, NextWith(nextDoes)>>]

\* validateAll with a next() that throws: the outer catch (99-101) forwards
\* whatever was thrown.
ValidateAllCalling(schemas, req, nextDoes) ==
    LET out == ValidateAllHandler(schemas, req)
    IN  IF out.nextCalls /= <<NextPlain>> \/ nextDoes = NextReturns THEN out
        ELSE [req |-> out.req, res |-> <<>>,
              nextCalls |-> <<NextPlain, NextWith(nextDoes)>>]

\* One run of a middleware instance on a request.
Invoke(op, schemas, req, nextDoes) ==
    IF op = "validate"
    THEN ValidateCalling(schemas[1].schema, schemas[1].source, req, nextDoes)
    ELSE ValidateAllCalling(schemas, req, nextDoes)

Flight(phase, op, schemas, nextDoes, before, out) ==
    [phase |-> phase, op |-> op, schemas |-> schemas, nextDoes |-> nextDoes,
     before |-> before, req |-> out.req, res |-> out.res, nextCalls |-> out.nextCalls]
Untouched(req) == [req |-> req, res |-> <<>>, nextCalls |-> <<>>]

\* A middleware instance that keeps the request it ran on in its closure
\* and writes the parsed sections to every request in flight.
RunValidatorOnAll(fs, i, op, schemas, nextDoes) ==
    LET out == Invoke(op, schemas, fs[i].req, nextDoes)
    IN  [j \in DOMAIN fs |->
            IF j = i THEN Flight("done", op, schemas, nextDoes, fs[i].before, out)
            ELSE IF fs[j].phase = "none" THEN fs[j]
            ELSE [fs[j] EXCEPT !.req = out.req]]

\* The middleware is called with (req, res, next) of flight i: it reads and
\* writes that req and res and nothing else.
RunValidator(fs, i, op, schemas, nextDoes) ==
    [fs EXCEPT ![i] = Flight("done", op, schemas, nextDoes, fs[i].before,
                             Invoke(op, schemas, fs[i].req, nextDoes))]

MaxFlights == 2
Flights == 1..MaxFlights
EmptyRequest == Request(NoObject, NoObject, NoObject, NoObject, Undef)
NoFlight == Flight("none", "none", <<>>, NextReturns, EmptyRequest, Untouched(EmptyRequest))
FlightRequests ==
    {Request(NoObject, Section(Str("2"), Str("5"), Str("x")), NoObject, NoObject, Undef),
     Request(NoObject, Section(Str("abc"), Undef, Undef), NoObject, NoObject, Undef),
     Request(Section(Num(0), Str("101"), Str("x")), Section(Undef, Undef, Undef),
             NoObject, NoObject, Str("req-1"))}
\* The middleware instances of the application's routes.
ValidateInstances ==
    {<<Entry("query", PaginationSchema)>>,
     <<Entry("query", FaultySchema(PlainError("TypeError", Undef, "boom", Undef)))>>}
ValidateAllInstances ==
    {<<Entry("query", PaginationSchema), Entry("body", PaginationSchema)>>}
NextBehaviours ==
    {NextReturns,
     PlainError("Error", Undef, "downstream failed", Undef),
     ZodError(<<Issue(<<"name">>, "Required", "invalid_type")>>, "ZodError", Undef, Undef)}

(***************************************************************************)
(* State: one process; one request at a time in the validator pipeline,    *)
(* the app and its served requests, the process's listeners, the wrapped   *)
(* handlers in flight, a pagination call.                                  *)
(***************************************************************************)
VARIABLES
    nodeEnv,    \* process.env.NODE_ENV when config was loaded
    stage,      \* where the request is: idle, arrived, route, failed, responded
    req,        \* the request object
    res,        \* responses written for the request, in order
    writers,    \* who wrote each response of res
    nextCalls,  \* calls of next made by the validator middleware
    pending,    \* the failure forwarded to the error-handling middleware
    call        \* the validator middleware that ran: its schemas, req before

VARIABLES
    appConfig,  \* the config setupExpress was called with
    app,        \* the app's stack of layers, in registration order
    phase,      \* created, setup (layers being registered), listening
    hits,       \* the rate limiter's count for the client in this window
    nextId,     \* how many ids the generator has produced
    issued,     \* the bag of request ids given to served requests
    last,       \* the request served last and what became of it
    served      \* how many requests were served

VARIABLES
    globalHandlers, \* how often setupGlobalErrorHandlers has run
    procLog,        \* what logger.error was called with, in order
    exitCode,       \* the code process.exit was called with, undefined before
    procEvent       \* the process-level failure delivered last

VARIABLES
    tasks       \* the invocations of wrapped handlers

VARIABLES
    pgInput,    \* the (page, limit, total) of the pagination call
    pgResult    \* what the call returned or wrote

VARIABLES
    fnInput,    \* the arguments of a call of one of the library's functions
    fnResult    \* what the call returned or threw

VARIABLES
    flights     \* the requests in flight through the validator middlewares

pipeVars == <<stage, req, res, writers, nextCalls, pending, call>>
appVars == <<appConfig, app, phase, hits, nextId, issued, last, served>>
procVars == <<globalHandlers, procLog, exitCode, procEvent>>
asyncVars == <<tasks>>
pageVars == <<pgInput, pgResult>>
fnVars == <<fnInput, fnResult>>
flightVars == <<flights>>
vars == <<nodeEnv, pipeVars, appVars, procVars, asyncVars, pageVars, fnVars, flightVars>>

NoCall == [op |-> "none", schemas |-> <<>>, before |-> Request(NoObject, NoObject, NoObject, NoObject, Undef)]
NoServe ==
    [served |-> FALSE, request |-> ClientRequest("", "", Undef), handlerThrows |-> FALSE,
     requestId |-> Undef, resHeader |-> Undef, res |-> Response(0, [text |-> Undef]),
     writer |-> "", trail |-> <<>>, err |-> NoError]
NoEvent == [event |-> "none", value |-> NoError, logged |-> 0]
NoPagination == Pagination(1, 1, 0)
NoResult == [op |-> "none", value |-> Undef]
NoInput == [op |-> "none"]

PipeInit ==
    /\ stage = "idle"
    /\ req = Request(NoObject, NoObject, NoObject, NoObject, Undef)
    /\ res = <<>>
    /\ writers = <<>>
    /\ nextCalls = <<>>
    /\ pending = NoError
    /\ call = NoCall

\* express() has made the app; nothing is registered yet.
AppInit ==
    /\ appConfig = DefaultConfig
    /\ app = <<>>
    /\ phase = "created"
    /\ hits = 0
    /\ nextId = 0
    /\ issued = EmptyBag
    /\ last = NoServe
    /\ served = 0

ProcInit ==
    /\ globalHandlers = 0
    /\ procLog = <<>>
    /\ exitCode = Undef
    /\ procEvent = NoEvent

AsyncInit == tasks = [i \in Tasks |-> NoTask]

PageInit ==
    /\ pgInput = NoPagination
    /\ pgResult = NoResult

FnInit ==
    /\ fnInput = NoInput
    /\ fnResult = NoResult

FlightInit == flights = [i \in Flights |-> NoFlight]

Init ==
    /\ nodeEnv \in NodeEnvs
    /\ PipeInit
    /\ AppInit
    /\ ProcInit
    /\ AsyncInit
    /\ PageInit
    /\ FnInit
    /\ FlightInit

\* A request arrives.
Arrive ==
    /\ stage = "idle"
    /\ \E b \in SectionValues, q \in SectionValues, p \in ParamsValues,
          h \in HeadersValues, id \in RequestIds :
            req' = Request(b, q, p, h, id)
    /\ stage' = "arrived"
    /\ res' = <<>>
    /\ writers' = <<>>
    /\ nextCalls' = <<>>
    /\ pending' = NoError
    /\ call' = NoCall
    /\ UNCHANGED <<fnVars, flightVars, nodeEnv, appVars, procVars, asyncVars, pageVars>>

\* Where the pipeline goes after a validator middleware's outcome.
StageAfter(out) ==
    IF Len(out.res) > 0 THEN "responded"
    ELSE IF Len(out.nextCalls) > 0 /\ out.nextCalls[Len(out.nextCalls)].hasArg THEN "failed"
    ELSE "route"

Ran(op, schemas, out) ==
    /\ req' = out.req
    /\ res' = out.res
    /\ writers' = [i \in 1..Len(out.res) |-> op]
    /\ nextCalls' = out.nextCalls
    /\ pending' = IF StageAfter(out) = "failed"
                  THEN out.nextCalls[Len(out.nextCalls)].err ELSE NoError
    /\ stage' = StageAfter(out)
    /\ call' = [op |-> op, schemas |-> schemas, before |-> req]
    /\ UNCHANGED <<fnVars, flightVars, nodeEnv, appVars, procVars, asyncVars, pageVars>>

\* The route's validate(schema, source) middleware runs.
Validate ==
    /\ stage = "arrived"
    /\ \E schema \in Schemas, source \in Sources :
          Ran("validate", <<Entry(source, schema)>>, ValidateHandler(schema, source, req))

\* The route's validateAll(schemas) middleware runs.
ValidateAll ==
    /\ stage = "arrived"
    /\ \E schemas \in Mappings :
          Ran("validateAll", schemas, ValidateAllHandler(schemas, req))

\* The route handler answers the request.
RouteResponds ==
    /\ stage = "route"
    /\ res' = Append(res, Response(200, [success |-> Bool(TRUE)]))
    /\ writers' = Append(writers, "route")
    /\ stage' = "responded"
    /\ UNCHANGED <<fnVars, flightVars, nodeEnv, req, nextCalls, pending, call, appVars, procVars, asyncVars, pageVars>>

\* The handler of a route without validators throws err or calls next(err).
RouteFails ==
    /\ stage = "arrived"
    /\ \E err \in Errors : pending' = err
    /\ stage' = "failed"
    /\ UNCHANGED <<fnVars, flightVars, nodeEnv, req, res, writers, nextCalls, call, appVars, procVars, asyncVars, pageVars>>

\* errorHandler(err, req, res, next) runs on the forwarded failure.
HandleError ==
    /\ stage = "failed"
    /\ res' = Append(res, ErrorHandlerResponse(pending, req, Config(nodeEnv)))
    /\ writers' = Append(writers, "errorHandler")
    /\ stage' = "responded"
    /\ UNCHANGED <<fnVars, flightVars, nodeEnv, req, nextCalls, pending, call, appVars, procVars, asyncVars, pageVars>>

\* The answered request is over; the process waits for the next one.
Finish ==
    /\ stage = "responded"
    /\ stage' = "idle"
    /\ req' = Request(NoObject, NoObject, NoObject, NoObject, Undef)
    /\ res' = <<>>
    /\ writers' = <<>>
    /\ nextCalls' = <<>>
    /\ pending' = NoError
    /\ call' = NoCall
    /\ UNCHANGED <<fnVars, flightVars, nodeEnv, appVars, procVars, asyncVars, pageVars>>

Next ==
    Arrive \/ Validate \/ ValidateAll \/ RouteResponds \/ RouteFails \/ HandleError \/ Finish

Spec == Init /\ [][Next]_vars

(***************************************************************************)
(* The app: set up, routes registered, error handlers added, then served.  *)
(***************************************************************************)
HasLayer(stack, kind) == \E i \in 1..Len(stack) : stack[i].kind = kind

\* setupExpress(app, config), which also installs the process's listeners.
SetupApp(configs) ==
    /\ phase = "created"
    /\ \E config \in configs :
          /\ appConfig' = config
          /\ app' = SetupExpress(app, config)
    /\ phase' = "setup"
    /\ globalHandlers' = globalHandlers + 1
    /\ UNCHANGED <<hits, nextId, issued, last, served>>
    /\ UNCHANGED <<fnVars, flightVars, nodeEnv, pipeVars, procLog, exitCode, procEvent, asyncVars, pageVars>>

\* app.get(path, handler) by the application's own code.
RegisterRoute ==
    /\ phase = "setup"
    /\ \E path \in UserPaths :
          /\ \A i \in 1..Len(app) : ~(app[i].kind = "user" /\ app[i].path = path)
          /\ app' = Append(app, Route("GET", path, "user"))
    /\ UNCHANGED <<appConfig, phase, hits, nextId, issued, last, served>>
    /\ UNCHANGED <<fnVars, flightVars, nodeEnv, pipeVars, procVars, asyncVars, pageVars>>

\* addErrorHandlers(app)
InstallErrorHandlers ==
    /\ phase = "setup"
    /\ ~HasLayer(app, "errorHandler")
    /\ app' = AddErrorHandlers(app)
    /\ UNCHANGED <<appConfig, phase, hits, nextId, issued, last, served>>
    /\ UNCHANGED <<fnVars, flightVars, nodeEnv, pipeVars, procVars, asyncVars, pageVars>>

\* app.listen(port)
Listen ==
    /\ phase = "setup"
    /\ phase' = "listening"
    /\ UNCHANGED <<appConfig, app, hits, nextId, issued, last, served>>
    /\ UNCHANGED <<fnVars, flightVars, nodeEnv, pipeVars, procVars, asyncVars, pageVars>>

\* What serving a request leaves behind: out is the request after dispatch.
Served(request, handlerThrows, out) ==
    /\ hits' = out.hits
    /\ nextId' = out.nextId
    /\ issued' = IF out.requestId /= Undef
                 THEN issued (+) SetToBag({out.requestId}) ELSE issued
    /\ last' = [served |-> TRUE, request |-> request, handlerThrows |-> handlerThrows,
                requestId |-> out.requestId, resHeader |-> out.resHeader,
                res |-> out.res[1], writer |-> out.writer, trail |-> out.trail,
                err |-> out.err]

\* The client sends a request and the stack answers it.
Serve ==
    /\ phase = "listening"
    /\ served < MaxRequests
    /\ \E request \in ClientRequests :
          \E handlerThrows \in HandlerOutcomes(request) :
              Served(request, handlerThrows,
                     Dispatch(app, 1, request,
                              Context(Undef, Undef, hits, nextId, NoError, NoResponse, "", <<>>),
                              handlerThrows, Config(nodeEnv)))
    /\ served' = served + 1
    /\ UNCHANGED <<appConfig, app, phase>>
    /\ UNCHANGED <<fnVars, flightVars, nodeEnv, pipeVars, procVars, asyncVars, pageVars>>

\* windowMs have passed: the limiter's count starts again.
WindowReset ==
    /\ phase = "listening"
    /\ hits > 0
    /\ hits' = 0
    /\ UNCHANGED <<appConfig, app, phase, nextId, issued, last, served>>
    /\ UNCHANGED <<fnVars, flightVars, nodeEnv, pipeVars, procVars, asyncVars, pageVars>>

NextApp ==
    SetupApp(ServeConfigs) \/ RegisterRoute \/ InstallErrorHandlers \/ Listen
    \/ Serve \/ WindowReset

InitApp == Init /\ nodeEnv \in AppNodeEnvs

SpecApp == InitApp /\ [][NextApp]_vars

\* Setting an app up, for every configuration.
NextSetup == SetupApp(Configs) \/ InstallErrorHandlers

SpecSetup == Init /\ [][NextSetup]_vars

(***************************************************************************)
(* The process and its failures.                                           *)
(***************************************************************************)
\* setupGlobalErrorHandlers()
SetupGlobalErrorHandlers ==
    /\ exitCode = Undef
    /\ globalHandlers < MaxSetups
    /\ globalHandlers' = globalHandlers + 1
    /\ UNCHANGED <<procLog, exitCode, procEvent>>
    /\ UNCHANGED <<fnVars, flightVars, nodeEnv, pipeVars, appVars, asyncVars, pageVars>>

Delivered(event, value) ==
    LET proc == Emit(event, value, globalHandlers, Config(nodeEnv), Process(procLog, exitCode))
    IN  /\ procLog' = proc.log
        /\ exitCode' = proc.exit
        /\ procEvent' = [event |-> event, value |-> value,
                         logged |-> Len(proc.log) - Len(procLog)]
        /\ UNCHANGED globalHandlers
        /\ UNCHANGED <<fnVars, flightVars, nodeEnv, pipeVars, appVars, asyncVars, pageVars>>

\* An exception reaches the top level of the running process.
UncaughtException ==
    /\ exitCode = Undef
    /\ globalHandlers > 0
    /\ Len(procLog) < MaxLogEntries
    /\ \E error \in Rejections : Delivered("uncaughtException", error)

\* A promise is rejected with nobody handling it.
UnhandledRejection ==
    /\ exitCode = Undef
    /\ globalHandlers > 0
    /\ Len(procLog) < MaxLogEntries
    /\ \E reason \in Rejections : Delivered("unhandledRejection", reason)

NextProcess == SetupGlobalErrorHandlers \/ UncaughtException \/ UnhandledRejection

SpecProcess == Init /\ [][NextProcess]_vars

(***************************************************************************)
(* Wrapped handlers: invoked, their promise settles, the reaction runs.    *)
(***************************************************************************)
TaskStep(i, task) ==
    /\ tasks' = [tasks EXCEPT ![i] = task]
    /\ UNCHANGED <<fnVars, flightVars, nodeEnv, pipeVars, appVars, procVars, pageVars>>

\* Express calls a handler wrapped by catchAsync.
InvokeCatchAsync ==
    \E i \in Tasks, behaviour \in Behaviours :
        /\ tasks[i] = NoTask
        /\ TaskStep(i, CatchAsync(behaviour))

\* Express calls the handler made by createValidatedHandler.
InvokeCreateValidatedHandler ==
    \E i \in Tasks, behaviour \in Behaviours :
        /\ tasks[i] = NoTask
        /\ TaskStep(i, CreateValidatedHandler(behaviour))

\* The handler's promise fulfils.
Fulfil ==
    \E i \in Tasks :
        /\ tasks[i].promise = "pending"
        /\ TaskStep(i, Settled(tasks[i], "fulfilled", NoError))

\* The handler's promise rejects.
Reject ==
    \E i \in Tasks, reason \in Rejections :
        /\ tasks[i].promise = "pending"
        /\ TaskStep(i, Settled(tasks[i], "rejected", reason))

\* The reaction job of a settled promise runs.
React ==
    \E i \in Tasks :
        /\ tasks[i].promise \in {"fulfilled", "rejected"}
        /\ tasks[i].attached
        /\ ~tasks[i].reacted
        /\ TaskStep(i, OnSettled(tasks[i]))

NextAsync == InvokeCatchAsync \/ InvokeCreateValidatedHandler \/ Fulfil \/ Reject \/ React

SpecAsync == Init /\ [][NextAsync]_vars

(***************************************************************************)
(* Pagination calls, for every (page, limit, total) of the input set.      *)
(***************************************************************************)
InitPagination ==
    /\ nodeEnv \in NodeEnvs
    /\ PipeInit
    /\ AppInit
    /\ ProcInit
    /\ AsyncInit
    /\ pgInput \in PaginationInputs
    /\ pgResult = NoResult
    /\ FnInit
    /\ FlightInit

CallCreatePaginationMeta ==
    /\ pgResult' = [op |-> "createPaginationMeta",
                    value |-> CreatePaginationMeta(pgInput.page, pgInput.limit, pgInput.total)]
    /\ UNCHANGED <<fnVars, flightVars, nodeEnv, pipeVars, appVars, procVars, asyncVars, pgInput>>

CallSendPaginated ==
    /\ \E requestId \in RequestIds :
          pgResult' = [op |-> "sendPaginated",
                       value |-> SendPaginated(Arr(<<>>), pgInput, requestId)]
    /\ UNCHANGED <<fnVars, flightVars, nodeEnv, pipeVars, appVars, procVars, asyncVars, pgInput>>

NextPagination == CallCreatePaginationMeta \/ CallSendPaginated

SpecPagination == InitPagination /\ [][NextPagination]_vars

(***************************************************************************)
(* Properties.                                                             *)
(***************************************************************************)
\* The parse of entry i of the validator call, on the section as it was
\* before the middleware ran (each source occurs once in a mapping).
ParseOf(i) == SchemaParse(call.schemas[i].schema, call.before[call.schemas[i].source])
EntriesOf(kind) == {i \in 1..Len(call.schemas) : ParseOf(i).kind = kind}

RECURSIVE SumIssues(_)
SumIssues(S) ==
    IF S = {} THEN 0
    ELSE LET i == CHOOSE x \in S : TRUE
         IN  Len(ParseOf(i).issues) + SumIssues(S \ {i})

\* The responses the validator middleware itself wrote.
ValidatorResponses == {i \in 1..Len(res) : writers[i] \in {"validate", "validateAll"}}

\* C1: validateAll with at least one source failing its schema writes exactly
\* one response, status 400, whose errors hold every violation of every
\* failing source (and nothing else), each tagged with its source, and does
\* not call next.
C1_ValidateAllAggregates ==
    (call.op = "validateAll" /\ EntriesOf("zod") /= {}) =>
        /\ Len(res) = 1
        /\ res[1].status = 400
        /\ res[1].body.success = Bool(FALSE)
        /\ res[1].body.message = Str("Validation failed")
        /\ nextCalls = <<>>
        /\ Len(res[1].body.errors.items) = SumIssues(EntriesOf("zod"))
        /\ \A i \in EntriesOf("zod") : \A k \in 1..Len(ParseOf(i).issues) :
              \E j \in 1..Len(res[1].body.errors.items) :
                  LET e == res[1].body.errors.items[j]
                      issue == ParseOf(i).issues[k]
                  IN  /\ e.source = call.schemas[i].source
                      /\ e.field = JoinPath(issue.path)
                      /\ e.message = issue.message

\* Two sources of one mapping fail and both are reported in the one response.
C1_Witness ==
    /\ call.op = "validateAll"
    /\ Cardinality(EntriesOf("zod")) = 2
    /\ Len(res) = 1
    /\ {res[1].body.errors.items[j].source : j \in 1..Len(res[1].body.errors.items)}
          = {"body", "query"}

\* C2: validate on a section that fails the schema answers 400 with
\* {success: false, message: "Validation failed", errors}, errors holding one
\* {field, message, code} entry per issue in the schema engine's order; the
\* body has no errorCode and next is not called.
C2_ValidateRejects ==
    (call.op = "validate" /\ ParseOf(1).kind = "zod") =>
        /\ Len(res) = 1
        /\ res[1].status = 400
        /\ DOMAIN res[1].body = {"success", "message", "errors"}
        /\ ~HasField(res[1].body, "errorCode")
        /\ res[1].body.success = Bool(FALSE)
        /\ res[1].body.message = Str("Validation failed")
        /\ res[1].body.errors.t = "array"
        /\ Len(res[1].body.errors.items) = Len(ParseOf(1).issues)
        /\ \A k \in 1..Len(ParseOf(1).issues) :
              res[1].body.errors.items[k] =
                  [field |-> JoinPath(ParseOf(1).issues[k].path),
                   message |-> ParseOf(1).issues[k].message,
                   code |-> ParseOf(1).issues[k].code]
        /\ nextCalls = <<>>

\* validate rejected a section with two constraint failures.
C2_Witness ==
    /\ call.op = "validate"
    /\ Len(res) = 1
    /\ res[1].status = 400
    /\ Len(res[1].body.errors.items) = 2
    /\ res[1].body.errors.items[1].field = "page"
    /\ res[1].body.errors.items[2].field = "limit"

\* C3: on success validate (its source parses) and validateAll (no source
\* produced a violation) leave every source of the mapping replaced by the
\* schema's parsed output, call next() exactly once without argument and write
\* no response.
C3_SuccessReplacesAndContinues ==
    /\ (call.op = "validate" /\ ParseOf(1).kind = "ok") =>
          /\ req[call.schemas[1].source] = ParseOf(1).value
          /\ nextCalls = <<NextPlain>>
          /\ ValidatorResponses = {}
    /\ (call.op = "validateAll" /\ EntriesOf("zod") = {}) =>
          /\ \A i \in 1..Len(call.schemas) :
                /\ ParseOf(i).kind = "ok"
                /\ req[call.schemas[i].source] = ParseOf(i).value
          /\ nextCalls = <<NextPlain>>
          /\ ValidatorResponses = {}

\* C4: validate whose parse throws something other than a ZodError writes no
\* response and hands exactly that failure to next(error).
C4_ValidatePropagates ==
    (call.op = "validate" /\ ParseOf(1).kind = "throw") =>
        /\ ValidatorResponses = {}
        /\ nextCalls = <<NextWith(ParseOf(1).thrown)>>
        /\ pending = ParseOf(1).thrown
        /\ req = call.before

\* validate forwarded a TypeError thrown by the parse to the error handler,
\* which answered it.
C4_Witness ==
    /\ call.op = "validate"
    /\ Len(nextCalls) = 1
    /\ nextCalls[1].hasArg
    /\ nextCalls[1].err.name = "TypeError"
    /\ stage = "responded"
    /\ writers = <<"errorHandler">>

\* C5: in validateAll a source whose parse throws a non-validation failure
\* adds no violation and is never passed to next(error); the other sources
\* are still attempted (replaced when they parse, reported when they fail);
\* with no violation at all next() is called without argument.
C5_ValidateAllAbsorbs ==
    (call.op = "validateAll" /\ EntriesOf("throw") /= {}) =>
        /\ \A n \in 1..Len(nextCalls) : ~nextCalls[n].hasArg
        /\ pending = NoError
        /\ \A i \in EntriesOf("throw") :
              /\ req[call.schemas[i].source] = call.before[call.schemas[i].source]
              /\ \A r \in ValidatorResponses : \A j \in 1..Len(res[r].body.errors.items) :
                    res[r].body.errors.items[j].source /= call.schemas[i].source
        /\ \A i \in EntriesOf("ok") : req[call.schemas[i].source] = ParseOf(i).value
        /\ \A i \in EntriesOf("zod") :
              \E r \in ValidatorResponses : \E j \in 1..Len(res[r].body.errors.items) :
                  res[r].body.errors.items[j].source = call.schemas[i].source
        /\ \A r \in ValidatorResponses :
              Len(res[r].body.errors.items) = SumIssues(EntriesOf("zod"))
        /\ (EntriesOf("zod") = {}) => (nextCalls = <<NextPlain>> /\ ValidatorResponses = {})

\* The first source of a mapping throws, the second parses: the second is
\* replaced and the request continues as if validation had succeeded.
C5_Witness ==
    /\ call.op = "validateAll"
    /\ Len(call.schemas) = 2
    /\ ParseOf(1).kind = "throw"
    /\ ParseOf(2).kind = "ok"
    /\ req[call.schemas[2].source] /= call.before[call.schemas[2].source]
    /\ nextCalls = <<NextPlain>>
    /\ stage = "route"

\* errorHandler has answered the forwarded failure `pending`.
Handled == Len(res) > 0 /\ writers[Len(res)] = "errorHandler"
ErrRes == res[Len(res)]

\* The classification rules in their stated order, each with what it matches
\* and the status and errorCode it gives.
RuleMatches(k, err) ==
    CASE k = 1 -> err.cls = "ZodError"
      [] k = 2 -> err.cls = "AppError"
      [] k = 3 -> err.name = "ValidationError"
      [] k = 4 -> err.name \in {"UnauthorizedError", "JsonWebTokenError"}
      [] k = 5 -> err.name = "CastError"
      [] k = 6 -> err.code = Num(11000)
      [] k = 7 -> err.code = Str("ECONNREFUSED")
      [] OTHER -> TRUE
RuleStatus(k, err) ==
    CASE k = 1 -> 400 [] k = 2 -> err.statusCode [] k = 3 -> 400 [] k = 4 -> 401
      [] k = 5 -> 400 [] k = 6 -> 409 [] k = 7 -> 503 [] OTHER -> 500
RuleErrorCode(k, err) ==
    CASE k = 1 -> "VALIDATION_ERROR" [] k = 2 -> err.errorCode
      [] k = 3 -> "VALIDATION_ERROR" [] k = 4 -> "UNAUTHORIZED"
      [] k = 5 -> "BAD_REQUEST" [] k = 6 -> "CONFLICT"
      [] k = 7 -> "SERVICE_UNAVAILABLE" [] OTHER -> "INTERNAL_SERVER_ERROR"
RuleMessages(k, err) ==
    CASE k = 1 -> {"Validation failed"} [] k = 2 -> {err.message}
      [] k = 3 -> {"Validation Error"} [] k = 4 -> {"Unauthorized"}
      [] k = 5 -> {"Invalid ID format"} [] k = 6 -> {"Duplicate field value"}
      [] k = 7 -> {"Service unavailable"}
      [] OTHER -> {err.message, "Something went wrong"}
Rules == 1..8
MatchingRules(err) == {k \in Rules : RuleMatches(k, err)}
FirstRule(err) == CHOOSE k \in MatchingRules(err) : \A j \in MatchingRules(err) : k <= j

\* C6: the response of errorHandler carries the status, message and errorCode
\* of the earliest rule, in the stated order, that the failure matches, also
\* when the failure matches several rules.
C6_FirstMatchWins ==
    Handled =>
        LET k == FirstRule(pending)
        IN  /\ ErrRes.status = RuleStatus(k, pending)
            /\ ErrRes.body.errorCode = Str(RuleErrorCode(k, pending))
            /\ ErrRes.body.message.s \in RuleMessages(k, pending)

\* A failure named ValidationError that also carries code 11000 was answered
\* by the name rule, and an AppError carrying ECONNREFUSED by the AppError rule.
C6_Witness ==
    /\ Handled
    /\ pending.cls = "Error"
    /\ pending.name = "ValidationError"
    /\ pending.code = Num(11000)
    /\ Cardinality(MatchingRules(pending)) >= 3
    /\ ErrRes.status = 400

\* C7: each recognized failure is answered with its fixed status, message and
\* errorCode whatever its own message, a ZodError with one {field, message,
\* code} detail per issue; the HTTP status is the status of the tuple.
Unclassed(err) == err.cls = "Error"
Unnamed(err) ==
    Unclassed(err) /\
    err.name \notin {"ValidationError", "UnauthorizedError", "JsonWebTokenError", "CastError"}
Answer(status, message, errorCode) ==
    /\ ErrRes.status = status
    /\ ErrRes.body.message = Str(message)
    /\ ErrRes.body.errorCode = Str(errorCode)
C7_FixedTuples ==
    Handled =>
        /\ pending.cls = "ZodError" =>
              /\ Answer(400, "Validation failed", "VALIDATION_ERROR")
              /\ ErrRes.body.errors.t = "array"
              /\ Len(ErrRes.body.errors.items) = Len(pending.issues)
              /\ \A i \in 1..Len(pending.issues) :
                    ErrRes.body.errors.items[i] =
                        [field |-> JoinPath(pending.issues[i].path),
                         message |-> pending.issues[i].message,
                         code |-> pending.issues[i].code]
        /\ (Unclassed(pending) /\ pending.name = "ValidationError") =>
              Answer(400, "Validation Error", "VALIDATION_ERROR")
        /\ (Unclassed(pending) /\ pending.name \in {"UnauthorizedError", "JsonWebTokenError"}) =>
              Answer(401, "Unauthorized", "UNAUTHORIZED")
        /\ (Unclassed(pending) /\ pending.name = "CastError") =>
              Answer(400, "Invalid ID format", "BAD_REQUEST")
        /\ (Unnamed(pending) /\ pending.code = Num(11000)) =>
              Answer(409, "Duplicate field value", "CONFLICT")
        /\ (Unnamed(pending) /\ pending.code = Str("ECONNREFUSED")) =>
              Answer(503, "Service unavailable", "SERVICE_UNAVAILABLE")

\* A duplicate-key failure with its own message "boom" was answered 409
\* "Duplicate field value".
C7_Witness ==
    /\ Handled
    /\ Unnamed(pending)
    /\ pending.code = Num(11000)
    /\ pending.message = "boom"
    /\ ErrRes.status = 409
    /\ ErrRes.body.message = Str("Duplicate field value")

\* C8: every AppError is answered with its own statusCode, message and
\* errorCode and with its details as the errors field.
C8_AppErrorPassthrough ==
    (Handled /\ pending.cls = "AppError") =>
        /\ ErrRes.status = pending.statusCode
        /\ ErrRes.body.message = Str(pending.message)
        /\ ErrRes.body.errorCode = Str(pending.errorCode)
        /\ ErrRes.body.errors = pending.details

\* C9: in production an unrecognized failure with a non-empty message is
\* answered 500 "Something went wrong" / INTERNAL_SERVER_ERROR without stack.
C9_ProductionHidesMessage ==
    (Handled /\ nodeEnv = Str("production") /\ FirstRule(pending) = 8
        /\ pending.message /= "") =>
        /\ ErrRes.status = 500
        /\ ErrRes.body.message = Str("Something went wrong")
        /\ ErrRes.body.errorCode = Str("INTERNAL_SERVER_ERROR")
        /\ ~HasField(ErrRes.body, "stack")

\* C10: a response has a stack only outside production, and outside
\* production (NODE_ENV development, test or unset) a failure that has a
\* stack is answered with it.
C10_StackByMode ==
    Handled =>
        /\ HasField(ErrRes.body, "stack") => nodeEnv /= Str("production")
        /\ (nodeEnv /= Str("production") /\ Truthy(pending.stack)) =>
              ErrRes.body.stack = pending.stack

\* C11: whenever errorHandler runs it writes exactly one response and calls
\* next not at all; the body has success = false, a message, an errorCode of
\* the ErrorCode set, a timestamp, and the request's requestId, which is
\* absent only when the request has none.
C11_Envelope ==
    [][HandleError =>
        LET r == res'[Len(res')]
        IN  /\ Len(res') = Len(res) + 1
            /\ writers'[Len(res')] = "errorHandler"
            /\ nextCalls' = nextCalls
            /\ r.body.success = Bool(FALSE)
            /\ r.body.message.t = "string"
            /\ r.body.errorCode.t = "string"
            /\ r.body.errorCode.s \in ErrorCode
            /\ HasField(r.body, "timestamp")
            /\ r.body.requestId = req.requestId
            /\ HasField(r.body, "requestId") <=> req.requestId /= Undef]_vars

\* A failure of a request that carries an id was answered: the one response
\* is the error envelope with that id.
C11_Witness ==
    /\ Handled
    /\ Cardinality({i \in 1..Len(res) : writers[i] = "errorHandler"}) = 1
    /\ req.requestId = Str("req-1")
    /\ ErrRes.body.requestId = Str("req-1")
    /\ ErrRes.body.success = Bool(FALSE)
    /\ ErrRes.body.errorCode.s \in ErrorCode

\* The details the classification of a failure supplies: an AppError's own
\* details, a ZodError's formatted issues, nothing for any other failure.
DetailsOf(err) ==
    IF err.cls = "AppError" THEN err.details
    ELSE IF err.cls = "ZodError"
    THEN Arr([i \in 1..Len(err.issues) |-> FormatDetail(err.issues[i])])
    ELSE Undef

\* C12: the errors field of an errorHandler response is present exactly when
\* the failure's details were supplied, whatever their value (an empty list,
\* 0, false and the empty string included), and then equals the details.
C12_ErrorsIffDetails ==
    Handled =>
        /\ HasField(ErrRes.body, "errors") <=> DetailsOf(pending) /= Undef
        /\ DetailsOf(pending) /= Undef => ErrRes.body.errors = DetailsOf(pending)

\* Where the error handlers are in the stack, which routes match a request
\* and on which side of notFoundHandler they were registered, which layers
\* the request served last went through.
ErrorHandlersInstalled == HasLayer(app, "notFound") /\ HasLayer(app, "errorHandler")
NotFoundAt == CHOOSE i \in 1..Len(app) : app[i].kind = "notFound"
Matches(layer, request) ==
    IsRoute(layer) /\ layer.method = request.method /\ layer.path = request.originalUrl
RoutesBefore(request) == {i \in 1..Len(app) : Matches(app[i], request) /\ i < NotFoundAt}
RoutesAfter(request) == {i \in 1..Len(app) : Matches(app[i], request) /\ i > NotFoundAt}
Invoked(i) == \E k \in 1..Len(last.trail) : last.trail[k] = i
InvokedKind(kind) == \E k \in 1..Len(last.trail) : app[last.trail[k]].kind = kind
\* The rate limiter let the request through to the routes.
Admitted == last.served /\ last.writer /= "rateLimit"
\* The response is errorHandler's 404 envelope for the request's URL.
RouteNotFoundResponse ==
    /\ last.writer = "errorHandler"
    /\ last.res.status = 404
    /\ last.res.body.success = Bool(FALSE)
    /\ last.res.body.message = Str("Route not found: " \o last.request.originalUrl)
    /\ last.res.body.errorCode = Str("NOT_FOUND")
    /\ HasField(last.res.body, "timestamp")
    /\ last.res.body.requestId = last.requestId
    /\ ~HasField(last.res.body, "errors")

FixedEndpoint(request) ==
    request.method = "GET" /\ request.originalUrl \in {"/health", "/ready"}
C15_FixedEndpoints ==
    (last.served /\ appConfig = DefaultConfig /\ FixedEndpoint(last.request)) =>
        /\ last.res.status = 200
        /\ HasField(last.res.body, "success")
        /\ last.res.body.success = Bool(TRUE)
        /\ last.request.originalUrl = "/health" =>
              /\ last.res.body.message = Str("Server is healthy")
              /\ HasField(last.res.body, "timestamp")
        /\ ~InvokedKind("notFound")
        /\ ~InvokedKind("errorHandler")

\* C18: a request matching a route registered before addErrorHandlers goes
\* to that route and not to notFoundHandler; a route registered after
\* addErrorHandlers is never invoked, and a request for it receives the 404
\* "Route not found" response.
FirstRouteBefore(request) ==
    CHOOSE i \in RoutesBefore(request) : \A j \in RoutesBefore(request) : i <= j
RegistrationOrder ==
    <<"requestId", "timing", "helmet", "cors", "compression", "rateLimit",
      "json", "urlencoded", "sanitize", "morgan", "health", "ready">>
PositionOf(kind) == CHOOSE k \in 1..Len(RegistrationOrder) : RegistrationOrder[k] = kind
SwitchedOff(section) == section.present /\ section.enabled = Bool(FALSE)
SetupLayers == {i \in 1..Len(app) : app[i].kind \notin {"notFound", "errorHandler", "user"}}
C19_SetupByPresence ==
    phase /= "created" =>
        /\ HasLayer(app, "requestId") <=> ~SwitchedOff(appConfig.requestId)
        /\ HasLayer(app, "helmet") <=> ~SwitchedOff(appConfig.helmet)
        /\ HasLayer(app, "cors") <=> ~SwitchedOff(appConfig.cors)
        /\ HasLayer(app, "compression") <=> ~SwitchedOff(appConfig.compression)
        /\ HasLayer(app, "rateLimit") <=> ~SwitchedOff(appConfig.rateLimit)
        /\ HasLayer(app, "morgan") <=> ~SwitchedOff(appConfig.logging)
        /\ \A kind \in {"timing", "json", "urlencoded", "sanitize", "health", "ready"} :
              HasLayer(app, kind)
        /\ \E i \in SetupLayers : app[i] = Route("GET", "/health", "health")
        /\ \E i \in SetupLayers : app[i] = Route("GET", "/ready", "ready")
        /\ \A i \in SetupLayers : \E k \in 1..Len(RegistrationOrder) :
              app[i].kind = RegistrationOrder[k]
        /\ \A i, j \in SetupLayers :
              i < j => PositionOf(app[i].kind) < PositionOf(app[j].kind)

\* A configuration with helmet's flag 0, CORS switched off and no logging
\* section: helmet and logging are registered, CORS is not.
C19_Witness ==
    /\ phase = "setup"
    /\ appConfig.helmet = ConfigSection(Num(0), Undef)
    /\ appConfig.cors = ConfigSection(Bool(FALSE), Undef)
    /\ appConfig.logging = NoSection
    /\ HasLayer(app, "helmet")
    /\ ~HasLayer(app, "cors")
    /\ HasLayer(app, "morgan")
    /\ HasLayer(app, "errorHandler")

\* C20: after requestIdMiddleware has run, req.requestId is a non-empty
\* string, the response's request-id header carries it, and no two requests
\* served by the app were given the same requestId.
C20_UniqueRequestId ==
    (last.served /\ HasLayer(app, "requestId")) =>
        /\ last.requestId.t = "string"
        /\ last.requestId.s /= ""
        /\ last.resHeader = last.requestId
        /\ \A id \in BagToSet(issued) : CopiesIn(id, issued) = 1

\* C14: for page >= 1, limit >= 1, total >= 0, createPaginationMeta and the
\* meta.pagination of sendPaginated are {page, limit, total, totalPages =
\* ceil(total / limit), hasNext = page < totalPages, hasPrev = page > 1};
\* (2, 10, 25) gives 3 pages with a next and a previous one, (1, 10, 5) one
\* page with neither.
PaginationOf(result) ==
    IF result.op = "createPaginationMeta" THEN result.value
    ELSE result.value.body.meta.pagination
\* n is the ceiling of total / limit: the least n with n * limit >= total.
IsCeiling(n, total, limit) == n * limit >= total /\ (n - 1) * limit < total
C14_PaginationMath ==
    pgResult.op /= "none" =>
        LET meta == PaginationOf(pgResult)
        IN  /\ DOMAIN meta = {"page", "limit", "total", "totalPages", "hasNext", "hasPrev"}
            /\ meta.page = pgInput.page
            /\ meta.limit = pgInput.limit
            /\ meta.total = pgInput.total
            /\ IsCeiling(meta.totalPages, pgInput.total, pgInput.limit)
            /\ meta.hasNext = (pgInput.page < meta.totalPages)
            /\ meta.hasPrev = (pgInput.page > 1)
            /\ pgInput = Pagination(2, 10, 25) =>
                  (meta.totalPages = 3 /\ meta.hasNext /\ meta.hasPrev)
            /\ pgInput = Pagination(1, 10, 5) =>
                  (meta.totalPages = 1 /\ ~meta.hasNext /\ ~meta.hasPrev)

\* sendPaginated wrote page 2 of 25 items, 10 a page: 3 pages.
C14_Witness ==
    /\ pgResult.op = "sendPaginated"
    /\ pgInput = Pagination(2, 10, 25)
    /\ pgResult.value.status = 200
    /\ pgResult.value.body.meta.pagination.totalPages = 3
    /\ pgResult.value.body.meta.pagination.hasNext

\* C16: an uncaught exception is logged and ends the process with exit code
\* 1; an unhandled rejection is logged, ends the process in every
\* non-production mode, and in production leaves it running.
C16_ProcessPolicy ==
    procEvent.event /= "none" =>
        /\ procLog /= <<>>
        /\ procLog[Len(procLog)].detail = procEvent.value.message
        /\ procEvent.event = "uncaughtException" => exitCode = Num(1)
        /\ procEvent.event = "unhandledRejection" =>
              /\ nodeEnv /= Str("production") => exitCode = Num(1)
              /\ nodeEnv = Str("production") => exitCode = Undef

\* C17: when the promise of a handler wrapped by catchAsync or made by
\* createValidatedHandler rejects with e, the wrapper calls next once, with
\* e, as Express does for a synchronous throw, and the rejection is handled;
\* when the promise fulfils the wrapper does not call next.
WrapperCalls(task) == {k \in 1..Len(task.calls) : task.calls[k].by = "wrapper"}
C17_AsyncPropagation ==
    \A i \in Tasks :
        LET task == tasks[i]
        IN  /\ Cardinality(WrapperCalls(task)) <= 1
            /\ task.promise = "rejected" =>
                  /\ ~task.unhandled
                  /\ task.reacted =>
                        /\ Cardinality(WrapperCalls(task)) = 1
                        /\ \A k \in WrapperCalls(task) :
                              task.calls[k].arg = ExpressCatch(task.reason).arg
                  /\ ~task.reacted => WrapperCalls(task) = {}
            /\ task.promise = "fulfilled" => WrapperCalls(task) = {}

\* Two handlers in flight: the one wrapped by catchAsync rejected and next
\* got its failure; the one of createValidatedHandler fulfilled, called next
\* itself, and its wrapper did not.
C17_Witness ==
    /\ tasks[1].wrapper = "catchAsync"
    /\ tasks[1].promise = "rejected"
    /\ tasks[1].reacted
    /\ tasks[1].calls = <<NextCall("wrapper", NextWith(RouteError))>>
    /\ tasks[2].wrapper = "createValidatedHandler"
    /\ tasks[2].promise = "fulfilled"
    /\ tasks[2].reacted
    /\ tasks[2].calls = <<NextCall("handler", NextPlain)>>

\* C21: every entry of the errors list of a 400 response of validate or
\* validateAll carries field, message and code; the entries of validateAll
\* carry source as well.
C21_ViolationShape ==
    \A r \in ValidatorResponses :
        res[r].status = 400 =>
            \A j \in 1..Len(res[r].body.errors.items) :
                LET e == res[r].body.errors.items[j]
                IN  /\ {"field", "message", "code"} \subseteq DOMAIN e
                    /\ writers[r] = "validateAll" => "source" \in DOMAIN e

\* C23: the errors list of validateAll is flat and ordered: the violations
\* of a source earlier in the mapping's iteration order precede those of a
\* later source, and the violations of one source keep the schema engine's
\* order.
SourceIndex(source) == CHOOSE i \in 1..Len(call.schemas) : call.schemas[i].source = source
IssuesBefore(i) == SumIssues({j \in EntriesOf("zod") : j < i})
C23_ViolationOrder ==
    (call.op = "validateAll" /\ ValidatorResponses /= {}) =>
        LET items == res[1].body.errors.items
        IN  /\ \A a \in 1..Len(items) :
                  /\ DOMAIN items[a] = {"source", "field", "message"}
                  /\ items[a].source \in Sources
            /\ \A a, b \in 1..Len(items) :
                  a < b => SourceIndex(items[a].source) <= SourceIndex(items[b].source)
            /\ \A i \in EntriesOf("zod") : \A k \in 1..Len(ParseOf(i).issues) :
                  /\ items[IssuesBefore(i) + k].source = call.schemas[i].source
                  /\ items[IssuesBefore(i) + k].field = JoinPath(ParseOf(i).issues[k].path)
                  /\ items[IssuesBefore(i) + k].message = ParseOf(i).issues[k].message

\* A mapping that lists query before body, query with two violations and
\* body with one: query's two come first, in the engine's order, then body's.
C23_Witness ==
    /\ call.op = "validateAll"
    /\ Len(call.schemas) = 2
    /\ call.schemas[1].source = "query"
    /\ call.schemas[2].source = "body"
    /\ Len(res) = 1
    /\ Len(res[1].body.errors.items) = 3
    /\ res[1].body.errors.items[1] =
          [source |-> "query", field |-> "page", message |-> "Number must be greater than 0"]
    /\ res[1].body.errors.items[2].source = "query"
    /\ res[1].body.errors.items[2].field = "limit"
    /\ res[1].body.errors.items[3].source = "body"

\* C28: when validate or validateAll answers 400, every section of the
\* request still holds the value it had before the middleware ran.
C28_NoMutationOnRejection ==
    ValidatorResponses /= {} => req = call.before

\* C30: however often setupExpress is called in one process, the library has
\* one 'unhandledRejection' listener and one 'uncaughtException' listener
\* installed, so a single failure event is logged once.
C30_HooksInstalledOnce ==
    /\ globalHandlers <= 1
    /\ procEvent.event /= "none" => procEvent.logged = 1

(***************************************************************************)
(* The field of a violation: validate, validateAll and errorHandler format *)
(* one issue of the schema engine.                                         *)
(***************************************************************************)
MaxPathLen == 3
PathSegments == {"", "user", "0"}
RECURSIVE PathsOfLen(_)
PathsOfLen(n) ==
    IF n = 0 THEN {<<>>}
    ELSE {<<s>> \o p : s \in PathSegments, p \in PathsOfLen(n - 1)}
Paths == UNION {PathsOfLen(n) : n \in 0..MaxPathLen}
FieldInputs == {[op |-> "issue", issue |-> Issue(path, "Required", "invalid_type")] : path \in Paths}

InitField ==
    /\ nodeEnv \in NodeEnvs
    /\ PipeInit
    /\ AppInit
    /\ ProcInit
    /\ AsyncInit
    /\ PageInit
    /\ FlightInit
    /\ fnInput \in FieldInputs
    /\ fnResult = NoResult

Returned(op, value) ==
    /\ fnResult' = [op |-> op, value |-> value]
    /\ UNCHANGED <<fnInput, flightVars, nodeEnv, pipeVars, appVars, procVars, asyncVars, pageVars>>

CallFormatIssue ==
    /\ fnInput.op = "issue"
    /\ Returned("validate", FormatIssue(fnInput.issue))

CallFormatSourceIssue ==
    /\ fnInput.op = "issue"
    /\ \E source \in Sources :
          Returned("validateAll", FormatSourceIssue(source, fnInput.issue))

CallFormatDetail ==
    /\ fnInput.op = "issue"
    /\ Returned("errorHandler", FormatDetail(fnInput.issue))

NextField == CallFormatIssue \/ CallFormatSourceIssue \/ CallFormatDetail

SpecField == InitField /\ [][NextField]_vars

\* C22: in validate, validateAll and errorHandler the field of a violation
\* is its path with the empty segments left out and the others joined with
\* "."; an empty path gives the empty string.
NonEmptySegment(segment) == segment /= ""
C22_FieldFormat ==
    fnResult.op \in {"validate", "validateAll", "errorHandler"} =>
        /\ fnResult.value.field = JoinPath(SelectSeq(fnInput.issue.path, NonEmptySegment))
        /\ fnInput.issue.path = <<>> => fnResult.value.field = ""

(***************************************************************************)
(* getEnv.  process.env maps a variable that is set to its string, the     *)
(* empty string included, and a variable that is not set to undefined.     *)
(***************************************************************************)
Returns(value) == [kind |-> "return", value |-> value]
Throws(message) == [kind |-> "throw", value |-> Str(message)]

ProcessEnv(env, key) == IF key \in DOMAIN env THEN env[key] ELSE Undef

GetEnv(env, key, defaultValue) ==
    LET value == ProcessEnv(env, key)
    IN  IF value = Undef /\ defaultValue = Undef
        THEN Throws("Environment variable " \o key \o " is not defined")
        ELSE Returns(IF Truthy(value) THEN value ELSE defaultValue)

EnvValues == {Undef, Str(""), Str("secret")}
EnvKeys == {"NODE_ENV", "API_KEY", "NON_EXISTENT"}
EnvDefaults == {Undef, Str(""), Str("default")}
GetEnvInputs(env) ==
    {[op |-> "getEnv", env |-> [NODE_ENV |-> env, API_KEY |-> v], key |-> k, defaultValue |-> d] :
        v \in EnvValues, k \in EnvKeys, d \in EnvDefaults}

InitGetEnv ==
    /\ nodeEnv \in NodeEnvs
    /\ PipeInit
    /\ AppInit
    /\ ProcInit
    /\ AsyncInit
    /\ PageInit
    /\ FlightInit
    /\ fnInput \in GetEnvInputs(nodeEnv)
    /\ fnResult = NoResult

CallGetEnv ==
    /\ fnInput.op = "getEnv"
    /\ fnResult.op = "none"
    /\ Returned("getEnv", GetEnv(fnInput.env, fnInput.key, fnInput.defaultValue))

NextGetEnv == CallGetEnv

SpecGetEnv == InitGetEnv /\ [][NextGetEnv]_vars

\* C25: getEnv returns the variable's value when the variable is set, the
\* default when it is not set, and throws when it is not set and there is
\* no default; what it returns is always a string.
C25_GetEnv ==
    fnResult.op = "getEnv" =>
        LET value == ProcessEnv(fnInput.env, fnInput.key)
            out == fnResult.value
        IN  /\ value /= Undef => out = Returns(value)
            /\ (value = Undef /\ fnInput.defaultValue /= Undef) =>
                  out = Returns(fnInput.defaultValue)
            /\ (value = Undef /\ fnInput.defaultValue = Undef) => out.kind = "throw"
            /\ out.kind = "return" => out.value.t = "string"

(***************************************************************************)
(* The options the wrappers hand to express-rate-limit and cors.  An       *)
(* options object is a function from its own keys to their values; a key   *)
(* written with the value undefined is a key of the object.                *)
(***************************************************************************)
\* { ...defaults, ...options }
Spread(defaults, options) ==
    [k \in DOMAIN defaults \cup DOMAIN options |->
        IF k \in DOMAIN options THEN options[k] ELSE defaults[k]]

RateLimitWindowMs == 15 * 60 * 1000
RateLimitMax == 100
RateLimitDefaults ==
    [windowMs |-> Num(RateLimitWindowMs), max |-> Num(RateLimitMax),
     message |-> Str(RateLimitMessage),
     standardHeaders |-> Bool(TRUE), legacyHeaders |-> Bool(FALSE)]
RateLimitMiddlewareOptions(options) == Spread(RateLimitDefaults, options)

CorsDefaults(corsOrigin) ==
    [origin |-> IF Truthy(corsOrigin) THEN corsOrigin ELSE Str("*"),
     credentials |-> Bool(TRUE),
     methods |-> Arr(<<Str("GET"), Str("POST"), Str("PUT"), Str("DELETE"),
                       Str("PATCH"), Str("OPTIONS")>>),
     allowedHeaders |-> Arr(<<Str("Content-Type"), Str("Authorization"),
                              Str("X-Requested-With")>>)]
CorsMiddlewareOptions(options, corsOrigin) == Spread(CorsDefaults(corsOrigin), options)

\* The rateLimit and cors sections of StartupExpressConfig with the keys
\* the wrappers receive; an omitted key reads as undefined.
RateLimitSection(windowMs, max) == [present |-> TRUE, windowMs |-> windowMs, max |-> max]
CorsSection(origin, credentials) == [present |-> TRUE, origin |-> origin, credentials |-> credentials]
KeyOf(section, key) == IF section.present THEN section[key] ELSE Undef

\* What setupExpress passes to the wrappers.
SetupRateLimitOptions(section) ==
    [windowMs |-> KeyOf(section, "windowMs"), max |-> KeyOf(section, "max")]
SetupCorsOptions(section) ==
    [origin |-> KeyOf(section, "origin"), credentials |-> KeyOf(section, "credentials")]

RateLimitSections ==
    {[present |-> FALSE]}
    \cup {RateLimitSection(w, x) : w \in {Undef, Num(60000)}, x \in {Undef, Num(2)}}
CorsSections ==
    {[present |-> FALSE]}
    \cup {CorsSection(o, c) : o \in {Undef, Str("https://app.example")},
                              c \in {Undef, Bool(TRUE), Bool(FALSE)}}
CorsOrigins == {Undef, Str("https://env.example")}
OptionsInputs ==
    {[op |-> "setupExpress", rateLimit |-> r, cors |-> c, corsOrigin |-> o] :
        r \in RateLimitSections, c \in CorsSections, o \in CorsOrigins}

InitOptions ==
    /\ nodeEnv \in NodeEnvs
    /\ PipeInit
    /\ AppInit
    /\ ProcInit
    /\ AsyncInit
    /\ PageInit
    /\ FlightInit
    /\ fnInput \in OptionsInputs
    /\ fnResult = NoResult

\* setupExpress registering the rate limiter and the CORS middleware.
CallRateLimitMiddleware ==
    /\ fnInput.op = "setupExpress"
    /\ Returned("rateLimitMiddleware",
                RateLimitMiddlewareOptions(SetupRateLimitOptions(fnInput.rateLimit)))

CallCorsMiddleware ==
    /\ fnInput.op = "setupExpress"
    /\ Returned("corsMiddleware",
                CorsMiddlewareOptions(SetupCorsOptions(fnInput.cors), fnInput.corsOrigin))

NextOptions == CallRateLimitMiddleware \/ CallCorsMiddleware

SpecOptions == InitOptions /\ [][NextOptions]_vars

\* C29: the options the wrappers hand to the libraries carry the wrapper's
\* default for every key the configuration omits (windowMs 15 minutes, max
\* 100, credentials true, origin CORS_ORIGIN or "*") and the caller's value
\* for every key the configuration supplies.
Supplied(section, key, default) ==
    IF KeyOf(section, key) /= Undef THEN KeyOf(section, key) ELSE default
C29_DefaultsSurvive ==
    /\ fnResult.op = "rateLimitMiddleware" =>
          /\ fnResult.value.windowMs = Supplied(fnInput.rateLimit, "windowMs", Num(15 * 60 * 1000))
          /\ fnResult.value.max = Supplied(fnInput.rateLimit, "max", Num(100))
    /\ fnResult.op = "corsMiddleware" =>
          /\ fnResult.value.credentials = Supplied(fnInput.cors, "credentials", Bool(TRUE))
          /\ fnResult.value.origin =
                Supplied(fnInput.cors, "origin", CorsDefaults(fnInput.corsOrigin).origin)

(***************************************************************************)
(* sanitizeMiddleware.  A string is the sequence of its characters, an     *)
(* object the sequence of its entries in the order of Object.entries.      *)
(***************************************************************************)
SStr(chars) == [t |-> "string", chars |-> chars, items |-> <<>>]
SNum(k) == [t |-> "number", chars |-> <<>>, items |-> <<k>>]
SNull == [t |-> "null", chars |-> <<>>, items |-> <<>>]
SUndef == [t |-> "undefined", chars |-> <<>>, items |-> <<>>]
SArr(items) == [t |-> "array", chars |-> <<>>, items |-> items]
SEntry(key, value) == [key |-> key, value |-> value]
SObj(entries) == [t |-> "object", chars |-> <<>>, items |-> entries]

\* The i flag of the patterns: letters compare by their lower case.
LowerCase(c) ==
    CASE c = "W" -> "w" [] c = "H" -> "h" [] c = "E" -> "e" [] c = "R" -> "r"
      [] c = "N" -> "n" [] c = "G" -> "g" [] c = "T" -> "t" [] c = "L" -> "l"
      [] OTHER -> c

MatchesAt(chars, pattern) ==
    /\ Len(chars) >= Len(pattern)
    /\ \A i \in 1..Len(pattern) : LowerCase(chars[i]) = pattern[i]

\* value.replace(/pattern/gi, ''): one scan from left to right; the scan goes
\* on behind a match and never looks at what the removal put together.
RECURSIVE ReplaceAll(_, _)
ReplaceAll(chars, pattern) ==
    IF chars = <<>> THEN <<>>
    ELSE IF MatchesAt(chars, pattern)
         THEN ReplaceAll(SubSeq(chars, Len(pattern) + 1, Len(chars)), pattern)
         ELSE <<Head(chars)>> \o ReplaceAll(Tail(chars), pattern)

Where == <<"$", "w", "h", "e", "r", "e">>
Ne == <<"$", "n", "e">>
Gt == <<"$", "g", "t">>
Lt == <<"$", "l", "t">>

SanitizeValue(value) ==
    IF value.t /= "string" THEN value
    ELSE SStr(ReplaceAll(ReplaceAll(ReplaceAll(ReplaceAll(value.chars, Where), Ne), Gt), Lt))

StartsWithDollar(key) == key /= <<>> /\ Head(key) = "$"
KeptEntry(entry) == ~StartsWithDollar(entry.key)

RECURSIVE SanitizeObject(_)
SanitizeObject(obj) ==
    IF obj.t \notin {"array", "object"} THEN SanitizeValue(obj)
    ELSE IF obj.t = "array"
         THEN SArr([i \in 1..Len(obj.items) |-> SanitizeObject(obj.items[i])])
         ELSE LET kept == SelectSeq(obj.items, KeptEntry)
              IN  SObj([i \in 1..Len(kept) |->
                           SEntry(kept[i].key, SanitizeObject(kept[i].value))])

SanTruthy(value) ==
    ~ \/ value.t \in {"undefined", "null"}
      \/ value = SStr(<<>>)
      \/ value = SNum(0)

SanRequest(body, query, params) == [body |-> body, query |-> query, params |-> params]

\* The middleware's effect on the request; it then calls next().
SanitizeMiddleware(request) ==
    SanRequest(IF SanTruthy(request.body) THEN SanitizeObject(request.body) ELSE request.body,
               IF SanTruthy(request.query) THEN SanitizeObject(request.query) ELSE request.query,
               IF SanTruthy(request.params) THEN SanitizeObject(request.params) ELSE request.params)

MaxStringLen == 6
MaxDepth == 2
Alphabet == {"$", "n", "e"}
RECURSIVE StringsOfLen(_)
StringsOfLen(n) ==
    IF n = 0 THEN {<<>>}
    ELSE {<<c>> \o s : c \in Alphabet, s \in StringsOfLen(n - 1)}
\* Strings with the other patterns, in either case and put together from
\* two patterns.
PatternStrings ==
    {<<"$", "w", "h", "e", "r", "e">>, <<"$", "W", "h", "E", "r", "e">>,
     <<"$", "G", "T">>, <<"a", "$", "l", "t", "b">>, <<"$", "N", "e">>,
     <<"$", "n", "$", "g", "t", "e">>, <<"$", "w", "h", "$", "l", "t", "e", "r", "e">>}
Strings == UNION {StringsOfLen(n) : n \in 0..MaxStringLen} \cup PatternStrings
ShortStrings == UNION {StringsOfLen(n) : n \in 0..3} \cup PatternStrings
Keys == {<<"a">>, <<"$", "k">>}
Wrapped(v) ==
    {SArr(<<v>>), SArr(<<SNum(1), v>>),
     SObj(<<SEntry(<<"a">>, v)>>), SObj(<<SEntry(<<"$", "k">>, v)>>),
     SObj(<<SEntry(<<"$", "k">>, SNum(1)), SEntry(<<"a">>, v)>>)}
RECURSIVE Nested(_)
Nested(d) ==
    IF d = 0 THEN {SStr(s) : s \in ShortStrings}
    ELSE UNION {Wrapped(v) : v \in Nested(d - 1)}
Bodies ==
    {SUndef, SNull, SNum(0), SNum(7), SObj(<<>>)}
    \cup {SStr(s) : s \in Strings}
    \cup UNION {Nested(d) : d \in 1..MaxDepth}
Queries == {SObj(<<>>), SObj(<<SEntry(<<"$", "n", "e">>, SStr(<<"1">>)), SEntry(<<"q">>, SStr(<<"$", "n", "e">>))>>)}
SanParams == {SObj(<<>>), SObj(<<SEntry(<<"i", "d">>, SStr(<<"$", "g", "$", "g", "t", "t">>))>>)}
SanitizeInputs ==
    {[op |-> "request", request |-> SanRequest(b, q, p)] :
        b \in Bodies, q \in Queries, p \in SanParams}

InitSanitize ==
    /\ nodeEnv \in NodeEnvs
    /\ PipeInit
    /\ AppInit
    /\ ProcInit
    /\ AsyncInit
    /\ PageInit
    /\ FlightInit
    /\ fnInput \in SanitizeInputs
    /\ fnResult = NoResult

RunSanitizeMiddleware ==
    /\ fnInput.op = "request"
    /\ Returned("sanitizeMiddleware", SanitizeMiddleware(fnInput.request))

NextSanitize == RunSanitizeMiddleware

SpecSanitize == InitSanitize /\ [][NextSanitize]_vars

\* C26: after sanitizeMiddleware, req.body, req.query and req.params have,
\* at every depth, no key that starts with "$" and no string that contains
\* "$where", "$ne", "$gt" or "$lt" in any letter case; sanitizing the result
\* again changes nothing.
Contains(chars, pattern) ==
    \E i \in 1..Len(chars) : MatchesAt(SubSeq(chars, i, Len(chars)), pattern)
RECURSIVE Sanitized(_)
Sanitized(value) ==
    CASE value.t = "string" ->
            \A pattern \in {Where, Ne, Gt, Lt} : ~Contains(value.chars, pattern)
      [] value.t = "array" ->
            \A i \in 1..Len(value.items) : Sanitized(value.items[i])
      [] value.t = "object" ->
            \A i \in 1..Len(value.items) :
                /\ ~StartsWithDollar(value.items[i].key)
                /\ Sanitized(value.items[i].value)
      [] OTHER -> TRUE
C26_Sanitized ==
    fnResult.op = "sanitizeMiddleware" =>
        /\ \A section \in {"body", "query", "params"} : Sanitized(fnResult.value[section])
        /\ SanitizeMiddleware(fnResult.value) = fnResult.value

InitFlights == Init

\* A request arrives while others are in flight.
FlightArrive ==
    /\ \E i \in Flights, request \in FlightRequests :
          /\ flights[i].phase = "none"
          /\ flights' = [flights EXCEPT ![i] =
                            Flight("arrived", "none", <<>>, NextReturns, request,
                                   Untouched(request))]
    /\ UNCHANGED <<fnVars, nodeEnv, pipeVars, appVars, procVars, asyncVars, pageVars>>

\* A route's validate(schema, source) runs on one of the requests.
FlightValidate ==
    /\ \E i \in Flights, schemas \in ValidateInstances, nextDoes \in NextBehaviours :
          /\ flights[i].phase = "arrived"
          /\ flights' = RunValidator(flights, i, "validate", schemas, nextDoes)
    /\ UNCHANGED <<fnVars, nodeEnv, pipeVars, appVars, procVars, asyncVars, pageVars>>

\* A route's validateAll(schemas) runs on one of the requests.
FlightValidateAll ==
    /\ \E i \in Flights, schemas \in ValidateAllInstances, nextDoes \in NextBehaviours :
          /\ flights[i].phase = "arrived"
          /\ flights' = RunValidator(flights, i, "validateAll", schemas, nextDoes)
    /\ UNCHANGED <<fnVars, nodeEnv, pipeVars, appVars, procVars, asyncVars, pageVars>>

\* The request has been answered; its slot is free for the next one.
FlightLeave ==
    /\ \E i \in Flights :
          /\ flights[i].phase = "done"
          /\ flights' = [flights EXCEPT ![i] = NoFlight]
    /\ UNCHANGED <<fnVars, nodeEnv, pipeVars, appVars, procVars, asyncVars, pageVars>>

NextFlights == FlightArrive \/ FlightValidate \/ FlightValidateAll \/ FlightLeave

SpecFlights == InitFlights /\ [][NextFlights]_vars

\* C24: validate and validateAll keep no state between runs and touch only
\* the request they are called with: what a run leaves in a request (its
\* sections, the response, the calls of next) is determined by the
\* middleware instance and the sections that request arrived with, so equal
\* sections give equal outcomes every time, and a request the middleware
\* has not run on is as it arrived, whatever ran on the others in flight.
Outcome(flight) == [req |-> flight.req, res |-> flight.res, nextCalls |-> flight.nextCalls]
C27_ExactlyOneOutcome ==
    \A i \in Flights :
        flights[i].phase = "done" =>
            /\ Len(flights[i].nextCalls) + Len(flights[i].res) = 1
            /\ \A r \in 1..Len(flights[i].res) : flights[i].res[r].status = 400

====
